---------------------------- MODULE Spec2Model ----------------------------
(***************************************************************************)
(* Model of the anicam dashcam player core:                                *)
(*   - the SEI extraction worker (workers/sei-worker.ts) and its consumer  *)
(*     hook useSeiData,                                                    *)
(*   - the NAL unit reader and the record decoder of the worker,           *)
(*   - the clip loader and the tick loop of useUnifiedTimeline.            *)
(* Times are integers in milliseconds (0.001 s = 1).  Byte sequences are   *)
(* sequences of integers 0..255; code positions are 0-based, so the byte   *)
(* the code calls data[p] is data[p + 1] here.                             *)
(***************************************************************************)
EXTENDS Integers, Sequences, FiniteSets, TLC

\* null where the code expects a Uint8Array (no byte is negative).
NoBytes == <<-1>>

Min(a, b) == IF a < b THEN a ELSE b
Max(a, b) == IF a > b THEN a ELSE b
Abs(a) == IF a < 0 THEN -a ELSE a

RECURSIVE Pow2(_)
Pow2(n) == IF n = 0 THEN 1 ELSE 2 * Pow2(n - 1)

\* Uint8Array.slice(from, to) with 0-based, end-exclusive positions, clamped
\* to the array as the built-in does.
Slice(data, from, to) ==
    LET f == Min(Max(from, 0), Len(data))
        t == Min(Max(to, 0), Len(data))
    IN  IF t <= f THEN << >> ELSE SubSeq(data, f + 1, t)

\* Bitwise OR of two naturals below 2^16.
RECURSIVE BitOr16(_, _)
BitOr16(a, b) ==
    IF a = 0 THEN b
    ELSE IF b = 0 THEN a
    ELSE (IF (a % 2 = 1) \/ (b % 2 = 1) THEN 1 ELSE 0)
         + 2 * BitOr16(a \div 2, b \div 2)

\* An unsigned 32-bit value is the record [hi, lo] of its 16-bit halves (the
\* model checker's integers are 32-bit signed, a uint32 does not fit one).
U32(hi, lo) == [hi |-> hi, lo |-> lo]
U32Or(a, b) == U32(BitOr16(a.hi, b.hi), BitOr16(a.lo, b.lo))

\* (x << s) as a 32-bit pattern, for 0 <= x < 128 and 0 <= s < 32.
U32Shl(x, s) ==
    IF s < 16
    THEN U32(((x * Pow2(s)) \div 65536) % 65536, (x * Pow2(s)) % 65536)
    ELSE U32((x * Pow2(s - 16)) % 65536, 0)

\* A JavaScript number q * 65536 + r (0 <= r < 65536) is <<"num", <<q, r>>>>.
NumU32(v) == <<"num", <<v.hi, v.lo>>>>
NumInt(n) == <<"num", <<n \div 65536, n % 65536>>>>

\* A uint32 used as a byte count: values of 65536 or more all lie past the end
\* of every buffer of the model and are kept as 65536.
BigLen == 65536
AsLength(v) == IF v.hi > 0 THEN BigLen ELSE v.lo

(***************************************************************************)
(* Record decoder (worker copy)                                            *)
(***************************************************************************)
NAL_ID_SEI == 6
NAL_SEI_ID_USER_DATA_UNREGISTERED == 5
MAX_NAL_SIZE == 10485760

SEI_FIELDS ==
    [n \in 1..16 |->
        CASE n = 1  -> [name |-> "version", type |-> "uint32"]
          [] n = 2  -> [name |-> "gear_state", type |-> "enum"]
          [] n = 3  -> [name |-> "frame_seq_no", type |-> "uint64"]
          [] n = 4  -> [name |-> "vehicle_speed_mps", type |-> "float"]
          [] n = 5  -> [name |-> "accelerator_pedal_position", type |-> "float"]
          [] n = 6  -> [name |-> "steering_wheel_angle", type |-> "float"]
          [] n = 7  -> [name |-> "blinker_on_left", type |-> "bool"]
          [] n = 8  -> [name |-> "blinker_on_right", type |-> "bool"]
          [] n = 9  -> [name |-> "brake_applied", type |-> "bool"]
          [] n = 10 -> [name |-> "autopilot_state", type |-> "enum"]
          [] n = 11 -> [name |-> "latitude_deg", type |-> "double"]
          [] n = 12 -> [name |-> "longitude_deg", type |-> "double"]
          [] n = 13 -> [name |-> "heading_deg", type |-> "double"]
          [] n = 14 -> [name |-> "linear_acceleration_mps2_x", type |-> "double"]
          [] n = 15 -> [name |-> "linear_acceleration_mps2_y", type |-> "double"]
          [] OTHER  -> [name |-> "linear_acceleration_mps2_z", type |-> "double"]]

\* readVarint: result |= (byte & 0x7f) << shift, with the shift count taken
\* modulo 32 and the result kept to 32 bits, as JavaScript does; the loop
\* stops at the buffer end, at a byte without the continuation bit, or when
\* shift reaches 64.
RECURSIVE ReadVarintLoop(_, _, _, _, _)
ReadVarintLoop(data, pos, result, shift, bytesRead) ==
    IF ~(pos + bytesRead < Len(data))
    THEN [value |-> result, bytesRead |-> bytesRead]
    ELSE LET byte == data[pos + bytesRead + 1]
             r == U32Or(result, U32Shl(byte % 128, shift % 32))
         IN  IF byte < 128 \/ shift + 7 >= 64
             THEN [value |-> r, bytesRead |-> bytesRead + 1]
             ELSE ReadVarintLoop(data, pos, r, shift + 7, bytesRead + 1)

\* A readVarint that gives up after five bytes (a 32-bit shift limit).
readVarintOfFive(data, pos) ==
    ReadVarintLoop(SubSeq(data, 1, Min(Len(data), pos + 5)), pos, U32(0, 0), 0, 0)

readVarint(data, pos) == ReadVarintLoop(data, pos, U32(0, 0), 0, 0)

\* data[i] of a Uint8Array, 0-based: a read past the end gives undefined,
\* which the bitwise operators and DataView.setUint8 take as 0.
ByteAt(data, i) == IF i < Len(data) THEN data[i + 1] ELSE 0

\* readFixed32: the four bytes OR-ed little-endian, an int32 (no >>> 0).
readFixed32(data, pos) ==
    ByteAt(data, pos) + 256 * ByteAt(data, pos + 1) + 65536 * ByteAt(data, pos + 2)
    + 16777216 * (IF ByteAt(data, pos + 3) >= 128
                  THEN ByteAt(data, pos + 3) - 256 ELSE ByteAt(data, pos + 3))

\* readFixed64: low + high * 0x100000000 of the two int32 halves.
readFixed64(data, pos) ==
    LET low == readFixed32(data, pos)
        high == readFixed32(data, pos + 4)
    IN  IF high \in -32767..32767
        THEN <<"num", <<high * 65536 + low \div 65536, low % 65536>>>>
        ELSE <<"num64", <<high, low>>>>

\* readFloat / readDouble: the IEEE-754 value is kept as its bit pattern (the
\* little-endian bytes), which is what bit-exact equality compares.
readFloat(data, pos) == <<"float", [i \in 1..4 |-> ByteAt(data, pos + i - 1)]>>
readDouble(data, pos) == <<"double", [i \in 1..8 |-> ByteAt(data, pos + i - 1)]>>

\* result[fieldDef.name] = fieldValue, or fieldValue !== 0 for a bool field
\* (nonZero is that comparison; an object is never === 0).
StoreField(result, fieldNumber, fieldValue, nonZero) ==
    IF fieldNumber \in DOMAIN SEI_FIELDS
    THEN LET def == SEI_FIELDS[fieldNumber]
             v == IF def.type = "bool"
                  THEN <<"bool", <<IF nonZero THEN 1 ELSE 0>>>>
                  ELSE fieldValue
         IN  [k \in DOMAIN result \cup {def.name} |->
                 IF k = def.name THEN v ELSE result[k]]
    ELSE result

\* A decoder that takes every fixed-width value as lying inside the buffer.
NeverRunsPast(data, pos, width) == FALSE

\* `pos + 8 > data.length`, `pos + 4 > data.length`
RunsPast(data, pos, width) == pos + width > Len(data)

\* The loop of decodeProtobuf from position pos on.  Next to the result it
\* keeps the position each iteration started at (trail), the end of the
\* farthest byte read so far (reach) and says why the loop was left: "end"
\* (pos reached data.length), "break" (a varint of no bytes), "return" (a
\* fixed-width value past the end) or "default" (the wire type).
RECURSIVE DecodeLoop(_, _, _, _, _)
DecodeLoop(data, pos, result, trail, reach) ==
    IF ~(pos < Len(data))
    THEN [result |-> result, trail |-> trail, reach |-> reach, left |-> "end"]
    ELSE
    LET hdr == readVarint(data, pos)
        p1 == pos + hdr.bytesRead
        fieldNumber == hdr.value.hi * 8192 + hdr.value.lo \div 8
        wireType == hdr.value.lo % 8
        isDef == fieldNumber \in DOMAIN SEI_FIELDS
        here == Append(trail, pos)
        Leave(why, read) ==
            [result |-> result, trail |-> here, reach |-> Max(reach, read),
             left |-> why]
    IN  IF hdr.bytesRead = 0 THEN Leave("break", p1)
        ELSE CASE wireType = 0 ->
                    LET v == readVarint(data, p1)
                    IN  IF v.bytesRead = 0 THEN Leave("break", p1)
                        ELSE DecodeLoop(data, p1 + v.bytesRead,
                                StoreField(result, fieldNumber, NumU32(v.value),
                                           v.value # U32(0, 0)),
                                here, Max(reach, p1 + v.bytesRead))
               [] wireType = 1 ->
                    IF RunsPast(data, p1, 8) THEN Leave("return", p1)
                    ELSE IF isDef /\ SEI_FIELDS[fieldNumber].type = "double"
                    THEN DecodeLoop(data, p1 + 8,
                            StoreField(result, fieldNumber, readDouble(data, p1), TRUE),
                            here, Max(reach, p1 + 8))
                    ELSE DecodeLoop(data, p1 + 8,
                            StoreField(result, fieldNumber, readFixed64(data, p1),
                                       readFixed64(data, p1) # <<"num", <<0, 0>>>>),
                            here, Max(reach, p1 + 8))
               [] wireType = 5 ->
                    IF RunsPast(data, p1, 4) THEN Leave("return", p1)
                    ELSE IF isDef /\ SEI_FIELDS[fieldNumber].type = "float"
                    THEN DecodeLoop(data, p1 + 4,
                            StoreField(result, fieldNumber, readFloat(data, p1), TRUE),
                            here, Max(reach, p1 + 4))
                    ELSE DecodeLoop(data, p1 + 4,
                            StoreField(result, fieldNumber, NumInt(readFixed32(data, p1)),
                                       readFixed32(data, p1) # 0),
                            here, Max(reach, p1 + 4))
               [] wireType = 2 ->
                    LET len == readVarint(data, p1)
                        p2 == p1 + len.bytesRead
                    IN  DecodeLoop(data, p2 + AsLength(len.value),
                            StoreField(result, fieldNumber,
                                <<"bytes", Slice(data, p2, p2 + AsLength(len.value))>>,
                                TRUE),
                            here,
                            Max(reach, Min(p2 + AsLength(len.value), Len(data))))
               [] OTHER -> Leave("default", p1)

\* decodeProtobuf: the decoded sample as a function from field names to values.
DecodeRun(data) == DecodeLoop(data, 0, << >>, << >>, 0)
decodeProtobuf(data) == DecodeRun(data).result

\* A strip that drops every 0x03 behind two zero bytes, also a 0x03 behind a
\* 0x03 it dropped.
RECURSIVE StripLoopKeepingRun(_, _, _, _)
StripLoopKeepingRun(data, i, zeroCount, stripped) ==
    IF i > Len(data) THEN stripped
    ELSE IF zeroCount >= 2 /\ data[i] = 3
         THEN StripLoopKeepingRun(data, i + 1, zeroCount, stripped)
         ELSE StripLoopKeepingRun(data, i + 1,
                                  IF data[i] = 0 THEN zeroCount + 1 ELSE 0,
                                  Append(stripped, data[i]))

\* stripEmulationPreventionBytes
RECURSIVE StripLoop(_, _, _, _)
StripLoop(data, i, zeroCount, stripped) ==
    IF i > Len(data) THEN stripped
    ELSE IF zeroCount >= 2 /\ data[i] = 3
         THEN StripLoop(data, i + 1, 0, stripped)
         ELSE StripLoop(data, i + 1, IF data[i] = 0 THEN zeroCount + 1 ELSE 0,
                        Append(stripped, data[i]))

stripEmulationPreventionBytes(data) == StripLoop(data, 1, 0, << >>)

\* extractProtoPayload: NoBytes (null), or the stripped payload after the 0x42* 0x69 marker.
RECURSIVE ExtractLoop(_, _)
ExtractLoop(nal, i) ==
    IF ~(i < Len(nal) - 1) THEN NoBytes
    ELSE IF nal[i + 1] = 66 THEN ExtractLoop(nal, i + 1)
    ELSE IF nal[i + 1] = 105 /\ i > 2
         THEN stripEmulationPreventionBytes(Slice(nal, i + 1, Len(nal) - 1))
         ELSE NoBytes

extractProtoPayload(nal) == IF Len(nal) < 2 THEN NoBytes ELSE ExtractLoop(nal, 3)

(***************************************************************************)
(* Container scan and NAL unit reader (worker)                             *)
(***************************************************************************)
\* DataView.getUint32(pos, false): 4 bytes big-endian.  A value of 2^24 or
\* more is larger than every buffer of the model and than MAX_NAL_SIZE; all
\* such values are kept as 2^24.
HugeSize == 16777216
getUint32(data, pos) ==
    IF data[pos + 1] > 0 THEN HugeSize
    ELSE 65536 * data[pos + 2] + 256 * data[pos + 3] + data[pos + 4]

\* Number(DataView.getBigUint64(pos, false)), kept as 2^24 from there on.
getBigUint64(data, pos) ==
    IF \E k \in 1..5 : data[pos + k] > 0 THEN HugeSize
    ELSE 65536 * data[pos + 6] + 256 * data[pos + 7] + data[pos + 8]

MDAT == <<109, 100, 97, 116>>
NotFound == [offset |-> -1, size |-> 0, threw |-> FALSE]
Threw == [offset |-> -1, size |-> 0, threw |-> TRUE]

\* findMdatInChunk
RECURSIVE FindMdatLoop(_, _, _)
FindMdatLoop(chunk, baseOffset, pos) ==
    IF ~(pos < Len(chunk) - 8) THEN NotFound
    ELSE
    LET size32 == getUint32(chunk, pos)
        atomType == Slice(chunk, pos + 4, pos + 8)
        ext == size32 = 1 /\ pos + 16 <= Len(chunk)
        atomSize == IF ext THEN getBigUint64(chunk, pos + 8)
                    ELSE IF size32 = 0 THEN Len(chunk) - pos
                    ELSE size32
        headerSize == IF ext THEN 16 ELSE 8
    IN  IF atomType = MDAT
        THEN [offset |-> baseOffset + pos + headerSize, size |-> atomSize - headerSize,
              threw |-> FALSE]
        ELSE IF atomSize < headerSize THEN NotFound
        ELSE FindMdatLoop(chunk, baseOffset, pos + atomSize)

findMdatInChunk(chunk, baseOffset) == FindMdatLoop(chunk, baseOffset, 0)

\* scanForMdat: reads a 16-byte header at each box; getBigUint64(8) on a
\* header chunk shorter than 16 bytes throws a RangeError (Threw).
RECURSIVE ScanMdatLoop(_, _)
ScanMdatLoop(file, pos) ==
    IF ~(pos < Len(file) - 8) THEN NotFound
    ELSE
    LET headerChunk == Slice(file, pos, Min(pos + 16, Len(file)))
        size32 == getUint32(headerChunk, 0)
        atomType == Slice(headerChunk, 4, 8)
    IN  IF size32 = 1 /\ Len(headerChunk) < 16 THEN Threw
        ELSE
        LET atomSize == IF size32 = 1 THEN getBigUint64(headerChunk, 8)
                        ELSE IF size32 = 0 THEN Len(file) - pos
                        ELSE size32
            headerSize == IF size32 = 1 THEN 16 ELSE 8
        IN  IF atomType = MDAT
            THEN [offset |-> pos + headerSize, size |-> atomSize - headerSize,
                  threw |-> FALSE]
            ELSE IF atomSize < headerSize THEN NotFound
            ELSE ScanMdatLoop(file, pos + atomSize)

scanForMdat(file) == ScanMdatLoop(file, 0)

\* readUint64 of the exporter: high * 2^32 + low.
readUint64(data, pos) == getBigUint64(data, pos)

\* findMdat of the exporter, over the whole file in memory.
RECURSIVE FindMdatWhole(_, _)
FindMdatWhole(data, pos) ==
    IF ~(pos < Len(data) - 8) THEN NotFound
    ELSE
    LET size32 == getUint32(data, pos)
        atomType == Slice(data, pos + 4, pos + 8)
    IN  IF size32 = 1 /\ pos + 16 > Len(data) THEN NotFound
        ELSE
        LET atomSize == IF size32 = 1 THEN readUint64(data, pos + 8)
                        ELSE IF size32 = 0 THEN Len(data) - pos
                        ELSE size32
            headerSize == IF size32 = 1 THEN 16 ELSE 8
        IN  IF atomType = MDAT
            THEN [offset |-> pos + headerSize, size |-> atomSize - headerSize,
                  threw |-> FALSE]
            ELSE IF atomSize < headerSize THEN NotFound
            ELSE FindMdatWhole(data, pos + atomSize)

findMdat(data) == FindMdatWhole(data, 0)

\* parseNalUnitsInChunk: the result record also carries pos, the read position
\* at which the function returned.
RECURSIVE ParseNalLoop(_, _, _, _)
ParseNalLoop(chunk, pos, frameIndex, frames) ==
    IF ~(pos + 4 < Len(chunk))
    THEN [frames |-> frames, nextFrameIndex |-> frameIndex, remaining |-> NoBytes,
          pos |-> pos]
    ELSE IF pos + 4 > Len(chunk)
    THEN [frames |-> frames, nextFrameIndex |-> frameIndex,
          remaining |-> Slice(chunk, pos, Len(chunk)), pos |-> pos]
    ELSE
    LET nalSize == getUint32(chunk, pos)
    IN  IF nalSize < 2 \/ nalSize > MAX_NAL_SIZE
        THEN ParseNalLoop(chunk, pos + 4, frameIndex, frames)
        ELSE IF pos + 4 + nalSize > Len(chunk)
        THEN [frames |-> frames, nextFrameIndex |-> frameIndex,
              remaining |-> Slice(chunk, pos, Len(chunk)), pos |-> pos]
        ELSE
        LET nalType == chunk[pos + 5] % 32
            seiPayloadType == chunk[pos + 6]
            payload == extractProtoPayload(Slice(chunk, pos + 4, pos + 4 + nalSize))
            isSei == nalType = NAL_ID_SEI
                     /\ seiPayloadType = NAL_SEI_ID_USER_DATA_UNREGISTERED
            push == isSei /\ payload # NoBytes
                    /\ DOMAIN decodeProtobuf(payload) # {}
        IN  IF push
            THEN ParseNalLoop(chunk, pos + 4 + nalSize, frameIndex + 1,
                     Append(frames, [index |-> frameIndex,
                                     data |-> decodeProtobuf(payload)]))
            ELSE ParseNalLoop(chunk, pos + 4 + nalSize, frameIndex, frames)

parseNalUnitsInChunk(chunk, startFrameIndex) ==
    ParseNalLoop(chunk, 0, startFrameIndex, << >>)

(***************************************************************************)
(* State                                                                   *)
(***************************************************************************)
VARIABLES
    \* --- SEI worker (workers/sei-worker.ts) and useSeiData ---
    files,              \* segment key -> bytes of the segment's front file
    chunkSize,          \* the streaming read size (CHUNK_SIZE, scaled)
    aborted,            \* the worker's module-level flag
    inbox,              \* messages posted to the worker, not yet handled
    runs,               \* the parseFileStreaming invocations, in start order
    outbox,             \* messages posted by the worker, not yet delivered
    lastParse,          \* the last parseNalUnitsInChunk call: [chunk, result]
    loadsLeft,          \* loadSegment / reset calls still to come
    getFilePending,     \* segment keys whose getFile() promise is pending
    currentSegmentRef,  \* useSeiData: key of the segment being loaded
    frameCache,         \* useSeiData: Map index -> sample, in insertion order
    seiData,            \* useSeiData: the array state
    isLoading,
    progress,
    extraction,         \* SeiExtractor.extract: its state, frames and result
    call,               \* the call of a function of the program made last:
                        \* its name, its arguments and what it returned
    \* --- VideoGrid (components/Player/VideoGrid.tsx) ---
    grid                \* the segment prop, the refs, the runs of the loading
                        \* effect, the elements' sources and the object URLs

workerVars == <<files, chunkSize, aborted, inbox, runs, outbox, lastParse,
                loadsLeft, getFilePending, currentSegmentRef, frameCache,
                seiData, isLoading, progress, extraction, call, grid>>

VARIABLES
    \* --- useUnifiedTimeline ---
    clip,               \* the loaded clip (an index of Clips), NoClip for null
    segmentDurations,   \* state: the probed durations, one per segment
    currentSegmentIndex,
    currentTime,        \* state: the reported unified time
    isReady,
    loadErrors,
    pendingSeekTimeRef, \* the pending local seek target, NoSeek for null
    loads,              \* loadClip invocations awaiting a duration probe
    videos,             \* camera -> the <video> element's state
    playingRef,         \* useVideoPlayer: the user wants playback
    \* --- the frame loop of the running effect ---
    loopOn,             \* an animation frame is requested
    frameCount,
    lastTimes,
    stallCounts,
    recoveryAttempts,
    recovery,           \* camera -> stall recovery issued by the last tick
    driftFix,           \* camera -> drift correction issued by the last tick
    lastRecovery,       \* camera -> the last recovery issued since anything but
                        \* a recovery moved the camera's position
    inRun,              \* camera -> since the loop started or last saw the camera
                        \* move, every tick has run the stall check on it
    heldRun,            \* camera -> the ticks of that run, all with the position
                        \* of the camera unchanged
    seekRun,            \* the ticks in a row that ended with the seek still pending
    lostCounts,         \* the loop cancelled last had counters that were not 0
    prevFront,          \* the position of the front camera on the tick before
    starveRun,          \* camera -> the ticks in a row that ran the stall check
                        \* on the camera, its playback not advancing, and
                        \* issued no recovery for it
    driftRun,           \* camera -> the ticks in a row, each counted by the loop
                        \* with the front camera progressing, that found the
                        \* camera beyond the drift threshold and left it there
    phase,              \* "env": a frame of wall time is passing; "tick": the
                        \* animation frame callback is due
    \* --- the environment of the player ---
    stuck,              \* camera -> the element's playback does not advance
    stallsLeft,         \* changes of `stuck` the environment may still make
    frameStep,          \* the time (ms) between two animation frames
    userLeft            \* operations the user may still perform

timelineVars == <<clip, segmentDurations, currentSegmentIndex, currentTime, isReady,
                  loadErrors, pendingSeekTimeRef, loads, videos, playingRef>>
loopVars == <<loopOn, frameCount, lastTimes, stallCounts, recoveryAttempts,
              recovery, driftFix, lastRecovery, inRun, heldRun, driftRun, starveRun, seekRun,
              lostCounts, prevFront, phase>>
envVars == <<stuck, stallsLeft, frameStep, userLeft>>

vars == <<workerVars, timelineVars, loopVars, envVars>>

(***************************************************************************)
(* Input files                                                             *)
(***************************************************************************)
\* A length-prefixed SEI unit carrying the record {version: v}:
\* 06 05 00 69 | 08 v | 80.
SeiUnit(v) == <<0, 0, 0, 7, 6, 5, 0, 105, 8, v, 128>>
\* A length-prefixed unit that is not an SEI unit.
PlainUnit == <<0, 0, 0, 2, 101, 136>>
\* A corrupt length prefix (declared length 0).
BadLength == <<0, 0, 0, 0>>

\* A file made of one 'mdat' box holding the stream.
MdatFile(stream) == <<0, 0, 0, 8 + Len(stream)>> \o MDAT \o stream

MaxUnits == 3
StreamItems == {SeiUnit(1), SeiUnit(2), PlainUnit, BadLength}

RECURSIVE StreamsOf(_)
StreamsOf(n) ==
    IF n = 0 THEN {<< >>}
    ELSE LET shorter == StreamsOf(n - 1)
         IN  shorter \cup {s \o i : s \in shorter, i \in StreamItems}

Streams == {s \in StreamsOf(MaxUnits) : Len(s) > 0}

\* The media-data bytes of a file made by MdatFile.
MdatOf(file) == Slice(file, 8, Len(file))

(***************************************************************************)
(* useSeiData: the frame cache (a JavaScript Map)                          *)
(***************************************************************************)
MapHas(m, k) == \E i \in 1..Len(m) : m[i].key = k
\* A lookup by position in the order of insertion.
MapGetByPosition(m, k) == m[(k % Len(m)) + 1].value
MapGet(m, k) == (CHOOSE e \in {m[i] : i \in 1..Len(m)} : e.key = k).value
\* An index that takes every pair as a new entry.
MapAppend(m, k, v) == Append(m, [key |-> k, value |-> v])
MapSet(m, k, v) ==
    IF MapHas(m, k)
    THEN [i \in 1..Len(m) |-> IF m[i].key = k THEN [key |-> k, value |-> v] ELSE m[i]]
    ELSE Append(m, [key |-> k, value |-> v])
MapValues(m) == [i \in 1..Len(m) |-> m[i].value]

(***************************************************************************)
(* The worker: self.onmessage and parseFileStreaming                       *)
(***************************************************************************)
HEADER_READ_SIZE == 102400

\* Frames posted under their position in the chunk's result.
PostFramesByPosition(frames) ==
    [i \in 1..Len(frames) |->
        [type |-> "frame", frame |-> frames[i].data, frameIndex |-> i - 1]]

\* The 'frame' messages of one chunk, in the order of the chunk's result.
PostFrames(frames) ==
    [i \in 1..Len(frames) |->
        [type |-> "frame", frame |-> frames[i].data, frameIndex |-> frames[i].index]]

\* Math.round(((offset - mdatOffset) / (mdatEnd - mdatOffset)) * 100)
ProgressOf(offset, mdatOffset, mdatEnd) ==
    (100 * (offset - mdatOffset) + (mdatEnd - mdatOffset) \div 2)
        \div (mdatEnd - mdatOffset)

\* The type of a message and the number it carries: the sample index of a
\* 'frame', the totalFrames of a 'complete', the percentage of a 'progress'.
Logged(msg) ==
    [type |-> msg.type,
     n |-> CASE msg.type = "frame" -> msg.frameIndex
             [] msg.type = "complete" -> msg.totalFrames
             [] msg.type = "progress" -> msg.progress
             [] OTHER -> 0]

\* postResponse for each of msgs, in order, by run r, which goes on as `run`:
\* the messages join the worker's outgoing queue, and the run's log records
\* each message it posted.
postResponse(r, run, msgs) ==
    /\ runs' = [runs EXCEPT ![r] =
                   [run EXCEPT !.log = run.log \o [i \in 1..Len(msgs) |-> Logged(msgs[i])]]]
    /\ outbox' = outbox \o msgs

\* A streaming loop that leaves without a word when it finds the abort flag set.
LoopTestQuiet(r, run, posted) ==
    IF run.offset < run.mdatEnd /\ ~aborted
    THEN postResponse(r, [run EXCEPT !.pc = "chunk"], posted)
    ELSE IF aborted
    THEN postResponse(r, [run EXCEPT !.pc = "done"], posted)
    ELSE postResponse(r, [run EXCEPT !.pc = "done"],
                      posted \o <<[type |-> "complete",
                                   totalFrames |-> run.frameIndex]>>)

\* The test of the streaming loop, `offset < mdatEnd && !aborted`, made with
\* the run's fields as they stand: either the next chunk read is issued or
\* 'complete' is posted and the run ends.  posted are the messages the run
\* posted before reaching the test.
LoopTest(r, run, posted) ==
    IF run.offset < run.mdatEnd /\ ~aborted
    THEN postResponse(r, [run EXCEPT !.pc = "chunk"], posted)
    ELSE postResponse(r, [run EXCEPT !.pc = "done"],
                      posted \o <<[type |-> "complete",
                                   totalFrames |-> run.frameIndex]>>)

\* self.onmessage: 'abort' sets the flag; 'start' clears it and enters
\* parseFileStreaming, which runs up to its first await (the header read).
WorkerReceive ==
    /\ inbox # << >>
    /\ LET msg == Head(inbox)
       IN  IF msg.type = "abort"
           THEN /\ aborted' = TRUE
                /\ runs' = [r \in DOMAIN runs |->
                              IF runs[r].pc # "done"
                              THEN [runs[r] EXCEPT !.abortSeen = TRUE]
                              ELSE runs[r]]
           ELSE /\ aborted' = FALSE
                /\ runs' = Append(runs,
                      [file |-> msg.file, pc |-> "header", offset |-> 0,
                       frameIndex |-> 0, mdatOffset |-> 0, mdatEnd |-> 0,
                       pendingBuffer |-> NoBytes, abortSeen |-> FALSE,
                       failed |-> FALSE, log |-> << >>])
    /\ inbox' = Tail(inbox)
    /\ UNCHANGED <<timelineVars, loopVars, envVars, extraction, call, grid>>
    /\ UNCHANGED <<files, chunkSize, outbox, lastParse, loadsLeft, getFilePending,
                   currentSegmentRef, frameCache, seiData, isLoading, progress>>

\* The header read resolves: locate the media data (the awaits of scanForMdat
\* touch no shared state and are taken in the same step), then enter the loop.
RunHeader(r) ==
    /\ runs[r].pc = "header"
    /\ LET file == files[runs[r].file]
           fileSize == Len(file)
           headerChunk == Slice(file, 0, Min(HEADER_READ_SIZE, fileSize))
           mdatInfo == findMdatInChunk(headerChunk, 0)
           found == IF mdatInfo.offset = -1 THEN scanForMdat(file) ELSE mdatInfo
       IN  IF found.threw
           THEN postResponse(r, [runs[r] EXCEPT !.pc = "done"],
                             <<[type |-> "error", error |-> "RangeError"]>>)
           ELSE IF found.offset = -1
           THEN postResponse(r, [runs[r] EXCEPT !.pc = "done"],
                             <<[type |-> "complete", totalFrames |-> 0]>>)
           ELSE LoopTest(r, [runs[r] EXCEPT
                                !.mdatOffset = found.offset,
                                !.offset = found.offset,
                                !.mdatEnd = IF found.size > 0
                                            THEN found.offset + found.size
                                            ELSE fileSize],
                         << >>)
    /\ UNCHANGED <<timelineVars, loopVars, envVars, extraction, call, grid>>
    /\ UNCHANGED <<files, chunkSize, aborted, inbox, lastParse, loadsLeft,
                   getFilePending, currentSegmentRef, frameCache, seiData,
                   isLoading, progress>>

\* A chunk read resolves: the body of the streaming loop for this chunk, then
\* the loop test again.
RunChunk(r) ==
    /\ runs[r].pc = "chunk"
    /\ LET run == runs[r]
           file == files[run.file]
           chunkEnd == Min(run.offset + chunkSize, run.mdatEnd)
           read == Slice(file, run.offset, chunkEnd)
           chunk == IF run.pendingBuffer # NoBytes
                    THEN run.pendingBuffer \o read ELSE read
           parseResult == parseNalUnitsInChunk(chunk, run.frameIndex)
           keep == IF parseResult.remaining # NoBytes /\ Len(parseResult.remaining) > 0
                   THEN parseResult.remaining ELSE NoBytes
       IN  /\ lastParse' = [chunk |-> chunk, result |-> parseResult]
           /\ LoopTest(r, [run EXCEPT !.frameIndex = parseResult.nextFrameIndex,
                                      !.pendingBuffer = keep,
                                      !.offset = chunkEnd],
                       PostFrames(parseResult.frames)
                       \o <<[type |-> "progress",
                             progress |-> ProgressOf(run.offset, run.mdatOffset,
                                                     run.mdatEnd)]>>)
    /\ UNCHANGED <<timelineVars, loopVars, envVars, extraction, call, grid>>
    /\ UNCHANGED <<files, chunkSize, aborted, inbox, loadsLeft, getFilePending,
                   currentSegmentRef, frameCache, seiData, isLoading, progress>>

\* A run that ends on a failed read without posting anything.
FailsSilently(r) ==
    /\ runs[r].pc \in {"header", "chunk"}
    /\ runs' = [runs EXCEPT ![r].pc = "done", ![r].failed = TRUE]
    /\ UNCHANGED <<timelineVars, loopVars, envVars, extraction, call, grid>>
    /\ UNCHANGED <<files, chunkSize, aborted, inbox, outbox, lastParse, loadsLeft,
                   getFilePending, currentSegmentRef, frameCache, seiData,
                   isLoading, progress>>

\* A read of the file rejects (the header read or a chunk read): the catch of
\* parseFileStreaming posts 'error' and the run is over.
ReadFails(r) ==
    /\ runs[r].pc \in {"header", "chunk"}
    /\ postResponse(r, [runs[r] EXCEPT !.pc = "done", !.failed = TRUE],
                    <<[type |-> "error", error |-> "NotReadableError"]>>)
    /\ UNCHANGED <<timelineVars, loopVars, envVars, extraction, call, grid>>
    /\ UNCHANGED <<files, chunkSize, aborted, inbox, lastParse, loadsLeft,
                   getFilePending, currentSegmentRef, frameCache, seiData,
                   isLoading, progress>>

(***************************************************************************)
(* useSeiData                                                              *)
(***************************************************************************)
\* currentSegmentRef is a segment key (1, 2, ...) or NoSegment for null.
NoSegment == 0

\* loadSegment(segment) for a segment with a front file.
loadSegment(k) ==
    /\ loadsLeft > 0
    /\ currentSegmentRef # k
    /\ loadsLeft' = loadsLeft - 1
    /\ currentSegmentRef' = k
    /\ frameCache' = << >>
    /\ seiData' = << >>
    /\ isLoading' = TRUE
    /\ progress' = 0
    /\ inbox' = Append(inbox, [type |-> "abort", file |-> 0])
    /\ getFilePending' = Append(getFilePending, k)
    /\ UNCHANGED <<timelineVars, loopVars, envVars, extraction, call, grid>>
    /\ UNCHANGED <<files, chunkSize, aborted, runs, outbox, lastParse>>

\* frontHandle.getFile() resolves: the 'start' message is posted.
GetFileResolved(i) ==
    /\ i \in 1..Len(getFilePending)
    /\ inbox' = Append(inbox, [type |-> "start", file |-> getFilePending[i]])
    /\ getFilePending' = [j \in 1..(Len(getFilePending) - 1) |->
                             IF j < i THEN getFilePending[j] ELSE getFilePending[j + 1]]
    /\ UNCHANGED <<timelineVars, loopVars, envVars, extraction, call, grid>>
    /\ UNCHANGED <<files, chunkSize, aborted, runs, outbox, lastParse, loadsLeft,
                   currentSegmentRef, frameCache, seiData, isLoading, progress>>

\* reset()
reset ==
    /\ loadsLeft > 0
    /\ loadsLeft' = loadsLeft - 1
    /\ inbox' = Append(inbox, [type |-> "abort", file |-> 0])
    /\ frameCache' = << >>
    /\ seiData' = << >>
    /\ progress' = 0
    /\ isLoading' = FALSE
    /\ currentSegmentRef' = NoSegment
    /\ UNCHANGED <<timelineVars, loopVars, envVars, extraction, call, grid>>
    /\ UNCHANGED <<files, chunkSize, aborted, runs, outbox, lastParse, getFilePending>>

\* The queue without its i-th message.
Without(queue, i) == SubSeq(queue, 1, i - 1) \o SubSeq(queue, i + 1, Len(queue))

\* workerRef.current.onmessage for the i-th message of the worker's outgoing
\* queue.
MainReceiveAt(i) ==
    /\ i \in DOMAIN outbox
    /\ LET msg == outbox[i]
       IN  CASE msg.type = "frame" ->
                  /\ frameCache' = MapSet(frameCache, msg.frameIndex, msg.frame)
                  /\ seiData' = IF msg.frameIndex % 18 = 0
                                THEN MapValues(frameCache') ELSE seiData
                  /\ UNCHANGED <<isLoading, progress>>
             [] msg.type = "progress" ->
                  /\ progress' = msg.progress
                  /\ UNCHANGED <<frameCache, seiData, isLoading>>
             [] msg.type = "complete" ->
                  /\ isLoading' = FALSE
                  /\ progress' = 100
                  /\ seiData' = MapValues(frameCache)
                  /\ UNCHANGED frameCache
             [] OTHER ->
                  /\ isLoading' = FALSE
                  /\ UNCHANGED <<frameCache, seiData, progress>>
    /\ outbox' = Without(outbox, i)
    /\ UNCHANGED <<timelineVars, loopVars, envVars, extraction, call, grid>>
    /\ UNCHANGED <<files, chunkSize, aborted, inbox, runs, lastParse, loadsLeft,
                   getFilePending, currentSegmentRef>>

\* Messages are delivered in the order they were posted.
MainReceive == MainReceiveAt(1)

\* useSeiData.getTelemetryAtTime.  Times are in milliseconds; segmentDuration
\* is the state set by loadSegment, 0 for null.  NoSample is null.
DEFAULT_FPS == 36
NoSample == [null |-> TRUE]

\* A target index at the default rate, whatever the segment's duration.
TargetIndexAtDefaultRate(time, size, duration) == (time * DEFAULT_FPS) \div 1000

\* Math.floor(time * effectiveFps), effectiveFps being size / duration for a
\* duration above 0 and a size above 0, and 36 otherwise.
TargetIndex(time, size, duration) ==
    IF duration > 0 /\ size > 0
    THEN (time * size) \div duration
    ELSE (time * DEFAULT_FPS) \div 1000

getTelemetryAtTime(cache, time, segmentDuration) ==
    IF Len(cache) = 0 THEN NoSample
    ELSE LET frameIndex == TargetIndex(time, Len(cache), segmentDuration)
             clampedIndex == Min(frameIndex, Len(cache) - 1)
         IN  IF MapHas(cache, frameIndex) THEN MapGet(cache, frameIndex)
             ELSE IF MapHas(cache, clampedIndex) THEN MapGet(cache, clampedIndex)
             ELSE NoSample

\* A call of getTelemetryAtTime on the frame cache as it stands.
LookupCache(time, duration) ==
    /\ call' = [fn |-> "useSeiData.getTelemetryAtTime", index |-> frameCache,
                time |-> time, duration |-> duration,
                ret |-> getTelemetryAtTime(frameCache, time, duration)]
    /\ UNCHANGED <<timelineVars, loopVars, envVars, extraction, grid>>
    /\ UNCHANGED <<files, chunkSize, aborted, inbox, runs, outbox, lastParse,
                   loadsLeft, getFilePending, currentSegmentRef, frameCache,
                   seiData, isLoading, progress>>

(***************************************************************************)
(* SeiExtractor                                                            *)
(***************************************************************************)
\* No function has been called.
NoCall == [fn |-> "none"]

\* No extraction has been asked for.
NoExtraction == [state |-> "none", frames |-> << >>, result |-> << >>]

\* Array.from(frames.entries()).sort(([a], [b]) => a - b).map(([, data]) => data)
SortedValues(m) ==
    LET keys == {m[i].key : i \in 1..Len(m)}
    IN  [n \in 1..Cardinality(keys) |->
            MapGet(m, CHOOSE k \in keys : Cardinality({j \in keys : j < k}) = n - 1)]

\* SeiExtractor.extract(file): a worker of its own is created and sent 'start'.
extract(k) ==
    /\ extraction.state = "none"
    /\ currentSegmentRef = NoSegment
    /\ inbox = << >>
    /\ runs = << >>
    /\ extraction' = [state |-> "pending", frames |-> << >>, result |-> << >>]
    /\ inbox' = <<[type |-> "start", file |-> k]>>
    /\ UNCHANGED <<timelineVars, loopVars, envVars, call, grid>>
    /\ UNCHANGED <<files, chunkSize, aborted, runs, outbox, lastParse, loadsLeft,
                   getFilePending, currentSegmentRef, frameCache, seiData,
                   isLoading, progress>>

\* worker.onmessage of SeiExtractor.extract for the i-th message of the
\* worker's outgoing queue.
ExtractorReceiveAt(i) ==
    /\ extraction.state = "pending"
    /\ i \in DOMAIN outbox
    /\ LET msg == outbox[i]
       IN  CASE msg.type = "frame" ->
                  extraction' = [extraction EXCEPT
                      !.frames = MapSet(extraction.frames, msg.frameIndex, msg.frame)]
             [] msg.type = "complete" ->
                  extraction' = [extraction EXCEPT
                      !.state = "done", !.result = SortedValues(extraction.frames)]
             [] msg.type = "error" ->
                  extraction' = [extraction EXCEPT !.state = "done", !.result = << >>]
             [] OTHER -> UNCHANGED extraction
    /\ outbox' = Without(outbox, i)
    /\ UNCHANGED <<timelineVars, loopVars, envVars, call, grid>>
    /\ UNCHANGED <<files, chunkSize, aborted, inbox, runs, lastParse, loadsLeft,
                   getFilePending, currentSegmentRef, frameCache, seiData,
                   isLoading, progress>>

ExtractorReceive == ExtractorReceiveAt(1)

\* SeiExtractor.getTelemetryAtTime(data, time, totalDuration), times in
\* milliseconds.
SeiExtractor_getTelemetryAtTime(data, time, totalDuration) ==
    IF Len(data) = 0 THEN NoSample
    ELSE LET frameIndex == TargetIndex(time, Len(data), totalDuration)
         IN  IF frameIndex < 0 THEN NoSample
             ELSE IF frameIndex >= Len(data) THEN data[Len(data)]
             ELSE data[frameIndex + 1]

\* A call of SeiExtractor.getTelemetryAtTime on the samples extract returned.
LookupExtracted(time, duration) ==
    /\ extraction.state = "done"
    /\ call' = [fn |-> "SeiExtractor.getTelemetryAtTime", index |-> extraction.result,
                time |-> time, duration |-> duration,
                ret |-> SeiExtractor_getTelemetryAtTime(extraction.result, time,
                                                        duration)]
    /\ UNCHANGED <<timelineVars, loopVars, envVars, extraction, grid>>
    /\ UNCHANGED <<files, chunkSize, aborted, inbox, runs, outbox, lastParse,
                   loadsLeft, getFilePending, currentSegmentRef, frameCache,
                   seiData, isLoading, progress>>

(***************************************************************************)
(* useUnifiedTimeline: clips, segment timings, loadClip, seekTo            *)
(***************************************************************************)
CAMERAS == {"front", "back"}
Slaves == CAMERAS \ {"front"}

SYNC_DRIFT_THRESHOLD == 150
STALL_THRESHOLD_FRAMES == 30
DEFAULT_SEGMENT_DURATION == 60000
PROGRESS_EPSILON == 1
SEEK_CONVERGE_TOLERANCE == 500
SEEK_SLAVE_TOLERANCE == 100
NUDGE_STEP == 10
NUDGE_END_MARGIN == 100
SYNC_THROTTLE_FRAMES == 30
MIN_READY_SEEK == 1
MIN_READY_PLAY == 2

NoClip == 0
NoSeek == -1

\* The clips of the model: per segment, the duration (ms) of its front video
\* and how the duration probe of loadClip ends for it.
VideoDuration == 200
LongDuration == 2000
Clips ==
    <<  <<[duration |-> VideoDuration, probe |-> "ok"]>>,
        <<[duration |-> VideoDuration - 100, probe |-> "ok"],
          [duration |-> VideoDuration, probe |-> "error"]>>,
        <<[duration |-> LongDuration, probe |-> "ok"],
          [duration |-> LongDuration, probe |-> "error"]>>  >>

\* What the probe of loadClip pushes for a segment: the video's duration,
\* DEFAULT_SEGMENT_DURATION when the probe fails or there is no front file.
ProbedDuration(segment) ==
    IF segment.probe = "ok" /\ segment.duration # 0
    THEN segment.duration ELSE DEFAULT_SEGMENT_DURATION

RECURSIVE SumSeq(_)
SumSeq(q) == IF q = << >> THEN 0 ELSE Head(q) + SumSeq(Tail(q))

\* segmentTimings (useMemo over clip and segmentDurations); indices are those
\* of the code (0-based), segmentTimings[i] is the timing of index i - 1.
SegmentTimingsOf(c, durations) ==
    IF c = NoClip \/ Len(durations) = 0 THEN << >>
    ELSE [i \in 1..Len(Clips[c]) |->
            LET d == IF i <= Len(durations) THEN durations[i] ELSE 0
                start == SumSeq([j \in 1..(i - 1) |->
                                    IF j <= Len(durations) THEN durations[j] ELSE 0])
            IN  [index |-> i - 1, startTime |-> start, endTime |-> start + d,
                 duration |-> d]]

segmentTimings == SegmentTimingsOf(clip, segmentDurations)
totalDuration == SumSeq(segmentDurations)

\* getSegmentAtTime, were the position at the end of the timeline given to a
\* segment after the last one.
getSegmentAtTimePastEnd(time) ==
    IF Len(segmentTimings) = 0 THEN [index |-> 0, localTime |-> 0]
    ELSE
    LET clampedTime == Max(0, Min(time, totalDuration))
        hits == {i \in 1..Len(segmentTimings) :
                    /\ clampedTime >= segmentTimings[i].startTime
                    /\ clampedTime < segmentTimings[i].endTime}
    IN  IF hits # {}
        THEN LET i == CHOOSE h \in hits : \A g \in hits : h <= g
             IN  [index |-> segmentTimings[i].index,
                  localTime |-> clampedTime - segmentTimings[i].startTime]
        ELSE [index |-> Len(segmentTimings), localTime |-> 0]

\* getSegmentAtTime
getSegmentAtTime(time) ==
    IF Len(segmentTimings) = 0 THEN [index |-> 0, localTime |-> 0]
    ELSE
    LET clampedTime == Max(0, Min(time, totalDuration))
        hits == {i \in 1..Len(segmentTimings) :
                    /\ clampedTime >= segmentTimings[i].startTime
                    /\ clampedTime < segmentTimings[i].endTime}
    IN  IF hits # {}
        THEN LET i == CHOOSE h \in hits : \A g \in hits : h <= g
             IN  [index |-> segmentTimings[i].index,
                  localTime |-> clampedTime - segmentTimings[i].startTime]
        ELSE LET lastTiming == segmentTimings[Len(segmentTimings)]
             IN  [index |-> lastTiming.index, localTime |-> lastTiming.duration]

\* video.currentTime = t: the element clamps the position to its duration
\* (a duration of 0 stands for NaN, no media loaded: the position stays 0).
SetTime(video, t) == [video EXCEPT !.pos = Max(0, Min(t, video.duration))]

\* video.play(): the element is no longer paused; an element whose playback
\* has ended starts again from the beginning.
Play(video) ==
    [video EXCEPT !.paused = FALSE,
                  !.pos = IF video.duration > 0 /\ video.pos >= video.duration
                          THEN 0 ELSE video.pos]

\* VideoGrid, when the segment it is given changes: removeAttribute('src') and
\* load() on every element (position 0, HAVE_NOTHING, paused, no duration).
NoMedia == [pos |-> 0, paused |-> TRUE, readyState |-> 0, src |-> FALSE, duration |-> 0]
ClearedVideos == [cam \in CAMERAS |-> NoMedia]

\* The effect of the hook runs again when clip, currentSegmentIndex,
\* segmentTimings or isReady change: the running loop is cancelled and, with a
\* front element and isReady, a new loop starts from fresh counters.
ZeroCounts == [cam \in CAMERAS |-> 0]
NoActions == [cam \in CAMERAS |-> "none"]

\* The last recovery of each camera after a step that leaves the elements as
\* `after` and issues the recoveries `issued`.
TrackRecovery(after, issued) ==
    lastRecovery' = [cam \in CAMERAS |->
                        IF issued[cam] # "none" THEN issued[cam]
                        ELSE IF after[cam].pos # videos[cam].pos THEN "none"
                        ELSE lastRecovery[cam]]

\* The counters of the running loop are not all 0.
CountsRunning ==
    frameCount # 0 \/ stallCounts # ZeroCounts \/ recoveryAttempts # ZeroCounts

\* A hook whose loop keeps its counters when the effect runs again.
KeepLoop(ready) ==
    /\ loopOn' = ready
    /\ lostCounts' = CountsRunning
    /\ UNCHANGED <<frameCount, lastTimes, stallCounts, recoveryAttempts, recovery,
                   driftFix, lastRecovery, inRun, heldRun, driftRun, starveRun, seekRun, prevFront,
                   phase>>

RestartLoop(ready) ==
    /\ loopOn' = ready
    /\ frameCount' = 0
    /\ lastTimes' = ZeroCounts
    /\ stallCounts' = ZeroCounts
    /\ recoveryAttempts' = ZeroCounts
    /\ recovery' = NoActions
    /\ driftFix' = NoActions
    /\ lastRecovery' = NoActions
    /\ inRun' = [cam \in CAMERAS |-> TRUE]
    /\ heldRun' = ZeroCounts
    /\ driftRun' = ZeroCounts
    /\ starveRun' = ZeroCounts
    /\ seekRun' = 0
    /\ lostCounts' = CountsRunning
    /\ UNCHANGED <<prevFront, phase>>

\* The synchronous run of loadClip from segment index `from` (1-based) with the
\* durations pushed so far: segments without a front file push the default at
\* once; the first segment with one is awaited (its index is returned as
\* `wait`, 0 when the loop over the segments is over).
RECURSIVE ProbeFrom(_, _, _)
ProbeFrom(c, from, durations) ==
    IF from > Len(Clips[c]) THEN [wait |-> 0, durations |-> durations]
    ELSE IF Clips[c][from].probe = "nofront"
    THEN ProbeFrom(c, from + 1, Append(durations, DEFAULT_SEGMENT_DURATION))
    ELSE [wait |-> from, durations |-> durations]

\* The end of loadClip: setSegmentDurations, setLoadErrors, setIsReady(true).
FinishLoad(durations, errors) ==
    /\ segmentDurations' = durations
    /\ loadErrors' = IF errors > 0 THEN errors ELSE loadErrors
    /\ isReady' = TRUE
    /\ RestartLoop(TRUE)

MaxLoadClips == 3

\* loadClip(newClip), up to its first await.
loadClip(c) ==
    /\ Len(loads) < MaxLoadClips
    /\ clip' = c
    /\ currentSegmentIndex' = 0
    /\ currentTime' = 0
    /\ LET first == ProbeFrom(c, 1, << >>)
       IN  IF first.wait = 0
           THEN /\ loads' = Append(loads, [clip |-> c, wait |-> 0,
                                           durations |-> first.durations,
                                           errors |-> 0])
                /\ segmentDurations' = first.durations
                /\ loadErrors' = 0
                /\ isReady' = TRUE
                /\ RestartLoop(TRUE)
           ELSE /\ loads' = Append(loads, [clip |-> c, wait |-> first.wait,
                                           durations |-> first.durations,
                                           errors |-> 0])
                /\ loadErrors' = 0
                /\ isReady' = FALSE
                /\ RestartLoop(FALSE)
                /\ UNCHANGED segmentDurations
    /\ videos' = ClearedVideos
    /\ UNCHANGED <<pendingSeekTimeRef, playingRef>>
    /\ UNCHANGED <<workerVars, envVars>>

\* The duration probe a loadClip invocation awaits resolves (metadata loaded,
\* or the element's error event, or getFile() rejected).
ProbeResolved(l) ==
    /\ loads[l].wait # 0
    /\ LET ld == loads[l]
           segment == Clips[ld.clip][ld.wait]
           errors == ld.errors + (IF segment.probe = "error" THEN 1 ELSE 0)
           next == ProbeFrom(ld.clip, ld.wait + 1,
                             Append(ld.durations, ProbedDuration(segment)))
       IN  /\ loads' = [loads EXCEPT ![l] = [ld EXCEPT !.wait = next.wait,
                                                      !.durations = next.durations,
                                                      !.errors = errors]]
           /\ IF next.wait = 0
              THEN FinishLoad(next.durations, errors)
              ELSE UNCHANGED <<segmentDurations, loadErrors, isReady, loopVars>>
    /\ UNCHANGED <<clip, currentSegmentIndex, currentTime, pendingSeekTimeRef, videos,
                   playingRef>>
    /\ UNCHANGED <<workerVars, envVars>>

\* A seekTo that stays in the current segment whatever the time.
seekInPlace(time) ==
    /\ userLeft > 0
    /\ userLeft' = userLeft - 1
    /\ currentTime' = time
    /\ pendingSeekTimeRef' = getSegmentAtTime(time).localTime
    /\ videos' = [cam \in CAMERAS |->
                    IF videos[cam].src /\ videos[cam].duration # 0
                    THEN SetTime(videos[cam], pendingSeekTimeRef')
                    ELSE videos[cam]]
    /\ UNCHANGED <<clip, segmentDurations, currentSegmentIndex, isReady, loadErrors,
                   loads, playingRef>>
    /\ UNCHANGED <<loopVars, workerVars, stuck, stallsLeft, frameStep>>

\* seekTo(time)
seekTo(time) ==
    LET at == getSegmentAtTime(time)
        segmentChanged == at.index # currentSegmentIndex
    IN  /\ userLeft > 0
        /\ userLeft' = userLeft - 1
        /\ currentTime' = time
        /\ pendingSeekTimeRef' = at.localTime
        /\ IF segmentChanged
           THEN /\ currentSegmentIndex' = at.index
                /\ RestartLoop(isReady)
                /\ videos' = ClearedVideos
           ELSE /\ videos' = [cam \in CAMERAS |->
                                IF videos[cam].src /\ videos[cam].duration # 0
                                THEN SetTime(videos[cam], at.localTime)
                                ELSE videos[cam]]
                /\ TrackRecovery(videos', NoActions)
                /\ seekRun' = 0
                /\ UNCHANGED <<currentSegmentIndex, loopOn, frameCount, lastTimes,
                               stallCounts, recoveryAttempts, recovery, driftFix,
                               inRun, heldRun, driftRun, starveRun, lostCounts, prevFront, phase>>
        /\ UNCHANGED <<clip, segmentDurations, isReady, loadErrors, loads, playingRef>>
        /\ UNCHANGED <<workerVars, stuck, stallsLeft, frameStep>>

\* VideoGrid has assigned the segment's object URL to a camera's element and
\* the element has loaded it; the canplay handler of useVideoPlayer resumes it
\* when the user wants playback.
SourceLoaded(cam) ==
    /\ clip # NoClip
    /\ currentSegmentIndex < Len(Clips[clip])
    /\ ~videos[cam].src
    /\ videos' = [videos EXCEPT ![cam] =
                    [pos |-> 0, paused |-> ~playingRef, readyState |-> 4, src |-> TRUE,
                     duration |-> Clips[clip][currentSegmentIndex + 1].duration]]
    /\ TrackRecovery(videos', NoActions)
    /\ UNCHANGED <<clip, segmentDurations, currentSegmentIndex, currentTime, isReady,
                   loadErrors, pendingSeekTimeRef, loads, playingRef>>
    /\ UNCHANGED <<loopOn, frameCount, lastTimes, stallCounts, recoveryAttempts,
                   recovery, driftFix, inRun, heldRun, driftRun, starveRun, seekRun,
                   lostCounts, prevFront, phase>>
    /\ UNCHANGED <<workerVars, envVars>>

(***************************************************************************)
(* useUnifiedTimeline: the frame loop                                      *)
(***************************************************************************)
\* Math.abs(a - b) > 0.001: the position changed between two ticks.
Moved(a, b) == Abs(a - b) > PROGRESS_EPSILON

\* A loop that takes the front camera to be progressing on every tick.
AlwaysProgressing(currentFrontTime, LastFrontTime) == TRUE

\* isFrontProgressing: the front camera has moved since the last tick that
\* recorded its position.
isFrontProgressing(currentFrontTime, LastFrontTime) ==
    Moved(currentFrontTime, LastFrontTime)

\* A loop that does not escalate: the tier stays what it was.
SameAttempt(attempt) == attempt

\* The tier that follows a recovery attempt: (attempt + 1) % 3.
NextAttempt(attempt) == (attempt + 1) % 3

\* The recovery tier of a slave after a tick on which its position changed.
AttemptAfterProgress(attempt) == 0

\* A loop that recovers one tick late: stallCounts[cam] > STALL_THRESHOLD_FRAMES.
StallReachedLate(count) == count > STALL_THRESHOLD_FRAMES

\* stallCounts[cam] >= STALL_THRESHOLD_FRAMES
StallReached(count) == count >= STALL_THRESHOLD_FRAMES

\* The graduated recovery of a stalled slave: the element after the action of
\* the tier, and the name of the action.
SlaveRecovery(video, attempt, frontPos) ==
    IF attempt = 0
    THEN [video |-> Play(video), action |-> "play"]
    ELSE IF attempt = 1
    THEN [video |-> Play(SetTime(video, frontPos)), action |-> "seek+play"]
    ELSE [video |-> IF video.duration # 0 /\ video.pos < video.duration - NUDGE_END_MARGIN
                    THEN SetTime(video, video.pos + NUDGE_STEP) ELSE video,
          action |-> "nudge"]

\* The stall check of one slave camera on a tick where the front camera is
\* progressing: its element, counters and last time after the check.
SlaveStallCheck(video, last, count, attempt, frontPos) ==
    IF ~video.paused /\ video.readyState >= MIN_READY_PLAY
    THEN IF Moved(video.pos, last)
         THEN [video |-> video, last |-> video.pos, count |-> 0,
               attempt |-> AttemptAfterProgress(attempt), action |-> "none"]
         ELSE IF StallReached(count + 1)
         THEN LET rec == SlaveRecovery(video, attempt, frontPos)
              IN  [video |-> rec.video, last |-> video.pos, count |-> 0,
                   attempt |-> NextAttempt(attempt), action |-> rec.action]
         ELSE [video |-> video, last |-> video.pos, count |-> count + 1,
               attempt |-> attempt, action |-> "none"]
    ELSE [video |-> video, last |-> last, count |-> 0, attempt |-> attempt,
          action |-> "none"]

\* A loop that corrects no drift.
NoDriftCheck(video, frontPos) == [video |-> video, action |-> "none"]

\* A drift correction that sets every ready slave camera to the front
\* position, however near it is.
DriftCheckAnyDrift(video, frontPos) ==
    IF video.src /\ video.readyState >= MIN_READY_PLAY
    THEN LET v1 == SetTime(video, frontPos)
         IN  [video |-> IF v1.paused THEN Play(v1) ELSE v1,
              action |-> IF v1.paused THEN "seek+play" ELSE "seek"]
    ELSE [video |-> video, action |-> "none"]

\* The throttled drift correction of one slave camera.
DriftCheck(video, frontPos) ==
    IF video.src /\ video.readyState >= MIN_READY_PLAY
    THEN LET far == Abs(video.pos - frontPos) > SYNC_DRIFT_THRESHOLD
             v1 == IF far THEN SetTime(video, frontPos) ELSE video
         IN  [video |-> IF v1.paused THEN Play(v1) ELSE v1,
              action |-> IF far /\ v1.paused THEN "seek+play"
                         ELSE IF far THEN "seek"
                         ELSE IF v1.paused THEN "play" ELSE "none"]
    ELSE [video |-> video, action |-> "none"]

\* frontVid.load(): the element starts over (position 0, nothing buffered yet).
Reload(video) == [video EXCEPT !.pos = 0, !.readyState = 0, !.paused = TRUE]

\* The graduated recovery of the stalled front camera.
FrontRecovery(video, attempt) ==
    IF attempt = 0
    THEN [video |-> Play(video), action |-> "play"]
    ELSE IF attempt = 1
    THEN [video |-> Play(Reload(video)), action |-> "reload+play"]
    ELSE [video |-> IF video.duration # 0 /\ video.pos < video.duration - NUDGE_END_MARGIN
                    THEN SetTime(video, video.pos + NUDGE_STEP) ELSE video,
          action |-> "nudge"]

\* A seek enforcer that declares the seek complete as soon as the front
\* element has metadata, wherever its position is.
SeekEnforcerAtOnce ==
    IF pendingSeekTimeRef # NoSeek /\ videos["front"].readyState >= MIN_READY_SEEK
    THEN [videos |-> videos, pending |-> NoSeek, counts |-> ZeroCounts,
          last |-> [cam \in CAMERAS |-> videos[cam].pos]]
    ELSE [videos |-> videos, pending |-> pendingSeekTimeRef, counts |-> stallCounts,
          last |-> lastTimes]

\* The seek enforcer of frameLoop: the elements, the pending target, the stall
\* counts and the last times after it.
SeekEnforcer ==
    LET front == videos["front"]
        target == pendingSeekTimeRef
    IN  IF target # NoSeek /\ front.readyState >= MIN_READY_SEEK
        THEN IF Abs(front.pos - target) > SEEK_CONVERGE_TOLERANCE
             THEN [videos |-> [cam \in CAMERAS |->
                                  IF videos[cam].src
                                     /\ videos[cam].readyState >= MIN_READY_SEEK
                                  THEN SetTime(videos[cam], target) ELSE videos[cam]],
                   pending |-> target, counts |-> stallCounts, last |-> lastTimes]
             ELSE LET synced == [cam \in CAMERAS |->
                                    IF cam # "front" /\ videos[cam].src
                                       /\ videos[cam].readyState >= MIN_READY_SEEK
                                       /\ Abs(videos[cam].pos - front.pos)
                                            > SEEK_SLAVE_TOLERANCE
                                    THEN SetTime(videos[cam], front.pos)
                                    ELSE videos[cam]]
                  IN  [videos |-> synced, pending |-> NoSeek, counts |-> ZeroCounts,
                       last |-> [cam \in CAMERAS |-> synced[cam].pos]]
        ELSE [videos |-> videos, pending |-> target, counts |-> stallCounts,
              last |-> lastTimes]

\* The longest run of stalled ticks followed per camera.
MaxRun == 2 * STALL_THRESHOLD_FRAMES

\* The run of each slave camera after a tick: the tick continues it when no
\* seek is pending, the front camera is playing and progressing and the camera
\* is playing with data; it starts again when the camera is seen to move.
TrackRun ==
    LET front == videos["front"]
        checked == [cam \in CAMERAS |->
                       /\ cam # "front"
                       /\ pendingSeekTimeRef = NoSeek
                       /\ ~front.paused
                       /\ Moved(front.pos, lastTimes["front"])
                       /\ ~videos[cam].paused
                       /\ videos[cam].readyState >= MIN_READY_PLAY]
        moved == [cam \in CAMERAS |-> Moved(videos[cam].pos, lastTimes[cam])]
    IN  /\ inRun' = [cam \in CAMERAS |->
                        checked[cam]
                        /\ (moved[cam] \/ (inRun[cam] /\ heldRun[cam] < MaxRun))]
        /\ heldRun' = [cam \in CAMERAS |->
                          IF inRun'[cam] /\ ~moved[cam] THEN heldRun[cam] + 1 ELSE 0]

\* The drift run of each slave camera after a tick: the tick adds to it when
\* it starts with no seek pending and the front camera playing and progressing,
\* finds the camera, ready and with a source, beyond the threshold and leaves
\* it beyond the threshold.
TrackDrift ==
    LET front == videos["front"]
        counted == /\ pendingSeekTimeRef = NoSeek
                   /\ ~front.paused
                   /\ Moved(front.pos, lastTimes["front"])
    IN  driftRun' = [cam \in CAMERAS |->
                        IF /\ cam # "front"
                           /\ counted
                           /\ Abs(videos[cam].pos - front.pos) > SYNC_DRIFT_THRESHOLD
                           /\ videos'[cam].src
                           /\ videos'[cam].readyState >= MIN_READY_PLAY
                           /\ Abs(videos'[cam].pos - videos'["front"].pos)
                                 > SYNC_DRIFT_THRESHOLD
                        THEN driftRun[cam] + 1 ELSE 0]

\* The longest run of ticks followed for a camera left without recovery.
StarveWindow == 3 * STALL_THRESHOLD_FRAMES

\* The run of each slave camera left without recovery after a tick: the tick
\* adds to it when no seek is pending, the front camera is playing and
\* progressing, the camera is playing with data (so the tick runs the stall
\* check on it), its playback does not advance by itself, and the tick issues
\* no recovery for it.
TrackStarve ==
    LET front == videos["front"]
    IN  starveRun' = [cam \in CAMERAS |->
                         IF /\ cam # "front"
                            /\ stuck[cam]
                            /\ pendingSeekTimeRef = NoSeek
                            /\ ~front.paused
                            /\ Moved(front.pos, lastTimes["front"])
                            /\ ~videos[cam].paused
                            /\ videos[cam].readyState >= MIN_READY_PLAY
                            /\ recovery'[cam] = "none"
                         THEN Min(starveRun[cam] + 1, StarveWindow) ELSE 0]

\* The longest run of ticks followed while a seek stays pending.
MaxSeekRun == 2

\* The run of ticks that leave the seek with the target `pending`.
TrackSeek(pending) ==
    seekRun' = IF pending = NoSeek THEN 0 ELSE Min(seekRun + 1, MaxSeekRun)

\* A loop that checks the progress of the front camera during a seek too.
CheckedInSeek(front, pending) == ~front.paused

\* The condition under which frameLoop checks the progress of the front
\* camera: it is not paused and no seek is pending after the seek enforcer.
FrontChecked(front, pending) == ~front.paused /\ pending = NoSeek

\* A loop that reports the time during a seek too.
updateTimeInSeek(segmentStartTime) == segmentStartTime + videos["front"].pos

\* updateTime: the unified time reported after a tick.
updateTime(segmentStartTime) ==
    IF pendingSeekTimeRef # NoSeek THEN currentTime
    ELSE segmentStartTime + videos["front"].pos

\* frameLoop: one animation frame callback.
Tick ==
    /\ loopOn
    /\ phase = "tick"
    /\ phase' = "env"
    /\ LET segStart == IF currentSegmentIndex < Len(segmentTimings)
                       THEN segmentTimings[currentSegmentIndex + 1].startTime ELSE 0
           se == SeekEnforcer
           front == se.videos["front"]
           progressing == isFrontProgressing(front.pos, se.last["front"])
           throttle == frameCount % SYNC_THROTTLE_FRAMES = 0
           stall == [cam \in Slaves |->
                        SlaveStallCheck(se.videos[cam], se.last[cam], se.counts[cam],
                                        recoveryAttempts[cam], front.pos)]
           drift == [cam \in Slaves |->
                        IF throttle THEN DriftCheck(stall[cam].video, front.pos)
                        ELSE [video |-> stall[cam].video, action |-> "none"]]
           frec == FrontRecovery(front, recoveryAttempts["front"])
       IN  /\ currentTime' = updateTime(segStart)
           /\ pendingSeekTimeRef' = se.pending
           /\ IF FrontChecked(front, se.pending)
              THEN /\ frameCount' = (frameCount + 1) % SYNC_THROTTLE_FRAMES
                   /\ IF progressing
                      THEN /\ videos' = [cam \in CAMERAS |->
                                IF cam = "front" THEN front ELSE drift[cam].video]
                           /\ lastTimes' = [cam \in CAMERAS |->
                                IF cam = "front" THEN front.pos ELSE stall[cam].last]
                           /\ stallCounts' = [cam \in CAMERAS |->
                                IF cam = "front" THEN 0 ELSE stall[cam].count]
                           /\ recoveryAttempts' = [cam \in CAMERAS |->
                                IF cam = "front" THEN recoveryAttempts[cam]
                                ELSE stall[cam].attempt]
                           /\ recovery' = [cam \in CAMERAS |->
                                IF cam = "front" THEN "none" ELSE stall[cam].action]
                           /\ driftFix' = [cam \in CAMERAS |->
                                IF cam = "front" THEN "none" ELSE drift[cam].action]
                      ELSE LET reached == StallReached(se.counts["front"] + 1)
                           IN  /\ videos' = IF reached
                                            THEN [se.videos EXCEPT !["front"] = frec.video]
                                            ELSE se.videos
                               /\ lastTimes' = [se.last EXCEPT !["front"] = front.pos]
                               /\ stallCounts' = [se.counts EXCEPT !["front"] =
                                     IF reached THEN 0 ELSE se.counts["front"] + 1]
                               /\ recoveryAttempts' = IF reached
                                     THEN [recoveryAttempts EXCEPT !["front"] =
                                             NextAttempt(recoveryAttempts["front"])]
                                     ELSE recoveryAttempts
                               /\ recovery' = [cam \in CAMERAS |->
                                     IF cam = "front" /\ reached THEN frec.action
                                     ELSE "none"]
                               /\ driftFix' = NoActions
              ELSE /\ videos' = se.videos
                   /\ recovery' = NoActions
                   /\ driftFix' = NoActions
                   /\ UNCHANGED <<frameCount, recoveryAttempts>>
                   /\ IF front.paused
                      THEN /\ stallCounts' = ZeroCounts
                           /\ lastTimes' = [cam \in CAMERAS |-> se.videos[cam].pos]
                      ELSE /\ stallCounts' = se.counts
                           /\ lastTimes' = se.last
    /\ TrackRecovery(videos', recovery')
    /\ TrackRun
    /\ TrackDrift
    /\ TrackStarve
    /\ TrackSeek(pendingSeekTimeRef')
    /\ UNCHANGED lostCounts
    /\ prevFront' = SeekEnforcer.videos["front"].pos
    /\ UNCHANGED <<clip, segmentDurations, currentSegmentIndex, isReady, loadErrors,
                   loads, playingRef, loopOn>>
    /\ UNCHANGED <<workerVars, envVars>>

(***************************************************************************)
(* The player around the loop: user operations and the passing of time     *)
(***************************************************************************)
\* useVideoPlayer.play()
play ==
    /\ userLeft > 0
    /\ userLeft' = userLeft - 1
    /\ playingRef' = TRUE
    /\ videos' = [cam \in CAMERAS |->
                    IF videos[cam].src THEN Play(videos[cam]) ELSE videos[cam]]
    /\ TrackRecovery(videos', NoActions)
    /\ UNCHANGED <<clip, segmentDurations, currentSegmentIndex, currentTime, isReady,
                   loadErrors, pendingSeekTimeRef, loads>>
    /\ UNCHANGED <<loopOn, frameCount, lastTimes, stallCounts, recoveryAttempts,
                   recovery, driftFix, inRun, heldRun, driftRun, starveRun, seekRun,
                   lostCounts, prevFront, phase>>
    /\ UNCHANGED <<workerVars, stuck, stallsLeft, frameStep>>

\* A pause() that pauses the front camera only.
PausedFrontOnly ==
    [cam \in CAMERAS |-> IF cam = "front" THEN [videos[cam] EXCEPT !.paused = TRUE]
                          ELSE videos[cam]]

\* useVideoPlayer.pause()
PausedVideos == [cam \in CAMERAS |-> [videos[cam] EXCEPT !.paused = TRUE]]

pause ==
    /\ userLeft > 0
    /\ userLeft' = userLeft - 1
    /\ playingRef' = FALSE
    /\ videos' = PausedVideos
    /\ UNCHANGED <<clip, segmentDurations, currentSegmentIndex, currentTime, isReady,
                   loadErrors, pendingSeekTimeRef, loads>>
    /\ UNCHANGED loopVars
    /\ UNCHANGED <<workerVars, stuck, stallsLeft, frameStep>>

\* The playback of a camera stops advancing, or advances again.
StuckChanges(cam) ==
    /\ phase = "env"
    /\ stallsLeft > 0
    /\ stallsLeft' = stallsLeft - 1
    /\ stuck' = [stuck EXCEPT ![cam] = ~stuck[cam]]
    /\ UNCHANGED <<workerVars, timelineVars, loopVars, userLeft, frameStep>>

\* Between two frames the playback of several cameras stops advancing or
\* advances again.
StuckChangesFor(cams) ==
    /\ phase = "env"
    /\ stallsLeft > 0
    /\ stallsLeft' = stallsLeft - 1
    /\ stuck' = [cam \in CAMERAS |-> IF cam \in cams THEN ~stuck[cam] ELSE stuck[cam]]
    /\ UNCHANGED <<workerVars, timelineVars, loopVars, userLeft, frameStep>>

\* The position of a slave camera jumps ahead of where it was (its decoder
\* skips): the drift of the drift scenario, 1.0 s.
DriftJump == 1000

Skips(cam) ==
    /\ phase = "env"
    /\ stallsLeft > 0
    /\ videos[cam].src
    /\ stallsLeft' = stallsLeft - 1
    /\ videos' = [videos EXCEPT ![cam] = SetTime(videos[cam], videos[cam].pos + DriftJump)]
    /\ TrackRecovery(videos', NoActions)
    /\ UNCHANGED <<clip, segmentDurations, currentSegmentIndex, currentTime, isReady,
                   loadErrors, pendingSeekTimeRef, loads, playingRef>>
    /\ UNCHANGED <<loopOn, frameCount, lastTimes, stallCounts, recoveryAttempts,
                   recovery, driftFix, inRun, heldRun, driftRun, starveRun, seekRun,
                   lostCounts, prevFront, phase>>
    /\ UNCHANGED <<workerVars, stuck, frameStep, userLeft>>

\* The time (ms) between two animation frames of a fast display: a playing
\* element advances by it from one tick to the next.
FrameStep == 2

\* An element after one frame of wall time: a playing element that is not
\* stuck advances; at the end of its media it pauses (and fires `ended`).
Advanced(video, held) ==
    IF video.src /\ ~video.paused /\ video.readyState >= MIN_READY_PLAY /\ ~held
    THEN IF video.pos + frameStep >= video.duration
         THEN [video EXCEPT !.pos = video.duration, !.paused = TRUE]
         ELSE [video EXCEPT !.pos = video.pos + frameStep]
    ELSE video

\* One frame of wall time passes; the front element reaching its end runs
\* handleEnded (the next segment, or onEnded: the player pauses).
Advance ==
    /\ loopOn
    /\ phase = "env"
    /\ phase' = "tick"
    /\ LET moved == [cam \in CAMERAS |-> Advanced(videos[cam], stuck[cam])]
           ended == ~videos["front"].paused /\ moved["front"].paused
           lastSegment == currentSegmentIndex = Len(Clips[clip]) - 1
       IN  IF ended /\ currentSegmentIndex < Len(Clips[clip]) - 1
              /\ currentSegmentIndex + 1 < Len(segmentTimings)
           THEN /\ pendingSeekTimeRef' = 0
                /\ currentSegmentIndex' = currentSegmentIndex + 1
                /\ videos' = ClearedVideos
                /\ loopOn' = isReady
                /\ frameCount' = 0
                /\ lastTimes' = ZeroCounts
                /\ stallCounts' = ZeroCounts
                /\ recoveryAttempts' = ZeroCounts
                /\ recovery' = NoActions
                /\ driftFix' = NoActions
                /\ lastRecovery' = NoActions
                /\ inRun' = [cam \in CAMERAS |-> TRUE]
                /\ heldRun' = ZeroCounts
                /\ driftRun' = ZeroCounts
                /\ starveRun' = ZeroCounts
                /\ seekRun' = 0
                /\ lostCounts' = CountsRunning
                /\ UNCHANGED <<playingRef, prevFront>>
           ELSE /\ IF ended /\ lastSegment
                   THEN /\ playingRef' = FALSE
                        /\ videos' = [cam \in CAMERAS |->
                                         [moved[cam] EXCEPT !.paused = TRUE]]
                   ELSE /\ videos' = moved
                        /\ UNCHANGED playingRef
                /\ TrackRecovery(videos', NoActions)
                /\ UNCHANGED <<pendingSeekTimeRef, currentSegmentIndex, loopOn,
                               frameCount, lastTimes, stallCounts, recoveryAttempts,
                               recovery, driftFix, inRun, heldRun, driftRun, starveRun, seekRun,
                               lostCounts, prevFront>>
    /\ UNCHANGED <<clip, segmentDurations, currentTime, isReady, loadErrors, loads>>
    /\ UNCHANGED <<workerVars, envVars>>

(***************************************************************************)
(* VideoGrid (components/Player/VideoGrid.tsx)                             *)
(***************************************************************************)
\* The object URL loadVideoUrl resolves for a camera in a run of the loading
\* effect (every call of URL.createObjectURL gives a URL of its own).
NoUrl == [effect |-> 0, cam |-> "none"]
UrlOf(e, cam) == [effect |-> e, cam |-> cam]
NoUrls == [cam \in CAMERAS |-> NoUrl]
UrlsIn(record) == {record[cam] : cam \in CAMERAS} \ {NoUrl}

\* The segments the grid is given (object identities); NoGridSegment for null.
NoGridSegment == 0
GridSegments == {1, 2}
MaxEffects == 2

\* The component after its first render without a segment. `resolved` records
\* every URL a load has resolved: whether its run had been cleaned up or its
\* segment was no longer the one given by then, and whether it was assigned.
GridIdle ==
    [mounted |-> TRUE, segment |-> NoGridSegment, currentSegmentRef |-> NoGridSegment,
     effects |-> << >>, src |-> NoUrls, loadedUrlsRef |-> NoUrls, revoked |-> {},
     resolved |-> {}]

\* The cleanup function of the effect's last run.
Cleanup(g) ==
    [g EXCEPT !.effects = [e \in DOMAIN g.effects |->
                              IF e = Len(g.effects)
                              THEN [g.effects[e] EXCEPT !.isCancelled = TRUE]
                              ELSE g.effects[e]],
              !.src = NoUrls,
              !.revoked = g.revoked \cup UrlsIn(g.loadedUrlsRef),
              !.loadedUrlsRef = NoUrls]

\* A run of the effect for a segment, up to the first await of loadVideos.
RunEffect(g, segment) ==
    IF segment = NoGridSegment THEN [g EXCEPT !.segment = segment]
    ELSE [g EXCEPT !.segment = segment,
                   !.currentSegmentRef = segment,
                   !.src = NoUrls,
                   !.revoked = g.revoked \cup UrlsIn(g.loadedUrlsRef),
                   !.loadedUrlsRef = NoUrls,
                   !.effects = Append(g.effects,
                                      [segment |-> segment, isCancelled |-> FALSE,
                                       pending |-> CAMERAS, newUrls |-> NoUrls,
                                       settled |-> FALSE])]

\* A step of the grid: nothing else changes.
GridStep(g) ==
    /\ grid' = g
    /\ UNCHANGED <<timelineVars, loopVars, envVars, extraction, call>>
    /\ UNCHANGED <<files, chunkSize, aborted, inbox, runs, outbox, lastParse,
                   loadsLeft, getFilePending, currentSegmentRef, frameCache,
                   seiData, isLoading, progress>>

\* The grid is rendered with another segment: the cleanup of the last run of
\* the effect, then a new run.
SegmentChanges(segment) ==
    /\ grid.mounted
    /\ Len(grid.effects) < MaxEffects
    /\ segment # grid.segment
    /\ GridStep(RunEffect(Cleanup(grid), segment))

\* The grid is unmounted.
Unmount ==
    /\ grid.mounted
    /\ GridStep([Cleanup(grid) EXCEPT !.mounted = FALSE])

\* The check made when a load resolves, were it made on the segment ref alone.
StillCurrentBySegment(effect) == grid.currentSegmentRef = effect.segment

\* !isCancelled && currentSegmentRef.current === segment
StillCurrent(effect) ==
    ~effect.isCancelled /\ grid.currentSegmentRef = effect.segment

\* loadVideoUrl resolves for a camera in run e of the effect.
LoadVideoUrlResolved(e, cam) ==
    /\ cam \in grid.effects[e].pending
    /\ LET effect == grid.effects[e]
           url == UrlOf(e, cam)
           stale == effect.isCancelled \/ grid.segment # effect.segment
           record == [url |-> url, stale |-> stale, assigned |-> StillCurrent(effect)]
       IN  IF StillCurrent(effect)
           THEN GridStep([grid EXCEPT
                    !.effects[e].pending = effect.pending \ {cam},
                    !.effects[e].newUrls[cam] = url,
                    !.src[cam] = url,
                    !.resolved = grid.resolved \cup {record}])
           ELSE GridStep([grid EXCEPT
                    !.effects[e].pending = effect.pending \ {cam},
                    !.revoked = grid.revoked \cup {url},
                    !.resolved = grid.resolved \cup {record}])

\* loadVideoUrl rejects: the error is logged.
LoadVideoUrlRejected(e, cam) ==
    /\ cam \in grid.effects[e].pending
    /\ GridStep([grid EXCEPT !.effects[e].pending = grid.effects[e].pending \ {cam}])

\* Promise.all of run e resolves.
AllSettled(e) ==
    /\ grid.effects[e].pending = {}
    /\ ~grid.effects[e].settled
    /\ GridStep([grid EXCEPT
            !.effects[e].settled = TRUE,
            !.loadedUrlsRef = IF StillCurrent(grid.effects[e])
                              THEN grid.effects[e].newUrls
                              ELSE grid.loadedUrlsRef])

(***************************************************************************)
(* Specifications of the timeline                                          *)
(***************************************************************************)
\* The hook after construction: no clip, nothing loaded, no loop.
TimelineIdle ==
    /\ clip = NoClip
    /\ segmentDurations = << >>
    /\ currentSegmentIndex = 0
    /\ currentTime = 0
    /\ isReady = FALSE
    /\ loadErrors = 0
    /\ pendingSeekTimeRef = NoSeek
    /\ loads = << >>
    /\ videos = ClearedVideos
    /\ playingRef = FALSE
    /\ loopOn = FALSE
    /\ frameCount = 0
    /\ lastTimes = ZeroCounts
    /\ stallCounts = ZeroCounts
    /\ recoveryAttempts = ZeroCounts
    /\ recovery = NoActions
    /\ driftFix = NoActions
    /\ lastRecovery = NoActions
    /\ inRun = [cam \in CAMERAS |-> TRUE]
    /\ heldRun = ZeroCounts
    /\ driftRun = ZeroCounts
    /\ starveRun = ZeroCounts
    /\ seekRun = 0
    /\ lostCounts = FALSE
    /\ prevFront = 0
    /\ phase = "env"
    /\ stuck = [cam \in CAMERAS |-> FALSE]
    /\ stallsLeft = 0
    /\ frameStep = FrameStep
    /\ userLeft = 0

(***************************************************************************)
(* Specifications of the extraction pipeline                               *)
(***************************************************************************)
NoParse == [chunk |-> << >>, result |-> parseNalUnitsInChunk(<< >>, 0)]

WorkerQuiet ==
    /\ extraction = NoExtraction
    /\ call = NoCall
    /\ grid = GridIdle
    /\ aborted = FALSE
    /\ runs = << >>
    /\ outbox = << >>
    /\ lastParse = NoParse
    /\ getFilePending = << >>
    /\ currentSegmentRef = NoSegment
    /\ frameCache = << >>
    /\ seiData = << >>
    /\ isLoading = FALSE
    /\ progress = 0

\* One file, read from its first byte to its last in chunks of every size:
\* the worker handles one 'start' message.
InitNal ==
    /\ \E s \in Streams :
          /\ files = <<MdatFile(s)>>
          /\ chunkSize \in 1..Len(s)
    /\ inbox = <<[type |-> "start", file |-> 1]>>
    /\ loadsLeft = 0
    /\ WorkerQuiet
    /\ TimelineIdle

NextNal ==
    \/ WorkerReceive
    \/ \E r \in DOMAIN runs : RunHeader(r)
    \/ \E r \in DOMAIN runs : RunChunk(r)

SpecNal == InitNal /\ [][NextNal]_vars

\* Two segments whose files hold different samples, one unit per chunk, and
\* useSeiData loading, reloading and resetting while the worker runs.
MaxLoads == 2
SegmentFiles ==
    <<MdatFile(SeiUnit(1) \o SeiUnit(2)), MdatFile(SeiUnit(3) \o SeiUnit(4))>>

InitWorker ==
    /\ files = SegmentFiles
    /\ chunkSize = Len(SeiUnit(1))
    /\ inbox = << >>
    /\ loadsLeft = MaxLoads
    /\ WorkerQuiet
    /\ TimelineIdle

NextWorker ==
    \/ \E k \in DOMAIN files : loadSegment(k)
    \/ \E i \in DOMAIN getFilePending : GetFileResolved(i)
    \/ reset
    \/ WorkerReceive
    \/ \E r \in DOMAIN runs : RunHeader(r)
    \/ \E r \in DOMAIN runs : RunChunk(r)
    \/ MainReceive

SpecWorker == InitWorker /\ [][NextWorker]_vars

\* The 'frame' messages among msgs, in order.
FramesIn(msgs) == SelectSeq(msgs, LAMBDA m : m.type = "frame")

\* The samples a file yields when its media data is parsed in one call.
SamplesOf(file) ==
    LET fs == parseNalUnitsInChunk(MdatOf(file), 0).frames
    IN  {fs[i].data : i \in 1..Len(fs)}

\* CHUNK_SIZE of the worker: 1 MiB.
CHUNK_SIZE == 1048576

\* A file made of one 'mdat' box of declared size 0 (to the end of the file).
OpenMdatFile(stream) == <<0, 0, 0, 0>> \o MDAT \o stream

\* A unit that is not an SEI unit and ends, behind the 8 bytes of a box header,
\* where the header read of parseFileStreaming ends.
FillerUnit ==
    LET n == HEADER_READ_SIZE - 8 - 4
    IN  <<0, n \div 65536, (n \div 256) % 256, n % 256>>
        \o [i \in 1..n |-> IF i = 1 THEN 101 ELSE 0]

\* One file whose media data is declared to run to the end of the file, with
\* its units inside the header read or behind it, read in chunks of the
\* worker's size: the worker handles one 'start' message.
InitPrefix ==
    /\ \E s \in StreamsOf(2) \ {<< >>} :
          files \in {<<OpenMdatFile(s)>>, <<OpenMdatFile(FillerUnit \o s)>>}
    /\ chunkSize = CHUNK_SIZE
    /\ inbox = <<[type |-> "start", file |-> 1]>>
    /\ loadsLeft = 0
    /\ WorkerQuiet
    /\ TimelineIdle

SpecPrefix == InitPrefix /\ [][NextNal]_vars

\* The pieces files are made of: well-formed boxes ('free' without content,
\* 'mdat' with one SEI unit), boxes whose declared size 4 is smaller than their
\* header, headers that announce an extended size, an extended size 8 (smaller
\* than the 16-byte header), and bytes that are no box.
FREE == <<102, 114, 101, 101>>
BoxItems ==
    {<<0, 0, 0, 8>> \o FREE, MdatFile(SeiUnit(1)),
     <<0, 0, 0, 4>> \o FREE, <<0, 0, 0, 4>> \o MDAT,
     <<0, 0, 0, 1>> \o FREE, <<0, 0, 0, 1>> \o MDAT,
     <<0, 0, 0, 0, 0, 0, 0, 8>>, <<0, 0>>}

MaxBoxes == 3

RECURSIVE BoxFilesOf(_)
BoxFilesOf(n) ==
    IF n = 0 THEN {<< >>}
    ELSE LET shorter == BoxFilesOf(n - 1)
         IN  shorter \cup {f \o b : f \in shorter, b \in BoxItems}

\* One file made of at most MaxBoxes pieces: the worker handles one 'start'
\* message.
InitBox ==
    /\ \E f \in BoxFilesOf(MaxBoxes) : files = <<f>>
    /\ chunkSize = CHUNK_SIZE
    /\ inbox = <<[type |-> "start", file |-> 1]>>
    /\ loadsLeft = 0
    /\ WorkerQuiet
    /\ TimelineIdle

SpecBox == InitBox /\ [][NextNal]_vars

\* One file, read in chunks of one unit or of the worker's size, by a worker
\* whose reads may fail; the file is loaded by useSeiData or extracted by
\* SeiExtractor.
InitRead ==
    /\ \E s \in StreamsOf(2) \ {<< >>} : files = <<MdatFile(s)>>
    /\ chunkSize \in {Len(SeiUnit(1)), CHUNK_SIZE}
    /\ inbox = << >>
    /\ loadsLeft = 1
    /\ WorkerQuiet
    /\ TimelineIdle

NextRead ==
    \/ extraction.state = "none" /\ loadSegment(1)
    \/ \E i \in DOMAIN getFilePending : GetFileResolved(i)
    \/ extract(1)
    \/ WorkerReceive
    \/ \E r \in DOMAIN runs : RunHeader(r)
    \/ \E r \in DOMAIN runs : RunChunk(r)
    \/ \E r \in DOMAIN runs : ReadFails(r)
    \/ extraction.state = "none" /\ MainReceive
    \/ ExtractorReceive

SpecRead == InitRead /\ [][NextRead]_vars

\* Two segments, the first with two samples and the second a file whose boxes
\* end early or hold no media data, one unit per chunk: useSeiData loads,
\* reloads and resets while the worker runs and its reads may fail.  Every
\* read the worker issues is answered, by its bytes or by a failure.
RunFiles ==
    {<<MdatFile(SeiUnit(1) \o SeiUnit(2)), <<0, 0, 0, 1>> \o FREE \o <<0, 0>>>>,
     <<MdatFile(SeiUnit(1) \o SeiUnit(2)), <<0, 0, 0, 8>> \o FREE>>}

InitRun ==
    /\ files \in RunFiles
    /\ chunkSize = Len(SeiUnit(1))
    /\ inbox = << >>
    /\ loadsLeft = MaxLoads
    /\ WorkerQuiet
    /\ TimelineIdle

ReadSettles == \E r \in DOMAIN runs : ReadFails(r) \/ RunHeader(r) \/ RunChunk(r)

NextRun ==
    \/ \E k \in DOMAIN files : loadSegment(k)
    \/ \E i \in DOMAIN getFilePending : GetFileResolved(i)
    \/ reset
    \/ WorkerReceive
    \/ \E r \in DOMAIN runs : RunHeader(r)
    \/ \E r \in DOMAIN runs : RunChunk(r)
    \/ \E r \in DOMAIN runs : ReadFails(r)
    \/ MainReceive

SpecRun == InitRun /\ [][NextRun]_vars /\ WF_vars(ReadSettles)

\* One segment of three samples, one unit per chunk, extracted by SeiExtractor
\* and then loaded by useSeiData, or loaded only.  'frame' and 'progress'
\* messages reach their receiver in any order, a terminal message after all
\* that was posted before it; telemetry is looked up at any moment, at times
\* before, within and at the end of a segment of LookupDuration milliseconds,
\* with the segment's duration known or not (0).
LookupDuration == 1000
LookupTimes == {-1, LookupDuration \div 3 + 1, LookupDuration}
LookupDurations == {0, LookupDuration}
LookupFile == MdatFile(SeiUnit(1) \o SeiUnit(2) \o SeiUnit(3))

Deliverable(i) ==
    /\ i \in DOMAIN outbox
    /\ outbox[i].type \in {"complete", "error"} => i = 1
    /\ \A j \in 1..(i - 1) : outbox[j].type \in {"frame", "progress"}

InitLookup ==
    /\ files = <<LookupFile>>
    /\ chunkSize = Len(SeiUnit(1))
    /\ inbox = << >>
    /\ loadsLeft = 1
    /\ WorkerQuiet
    /\ TimelineIdle

NextLookup ==
    \/ extraction.state # "pending" /\ loadSegment(1)
    \/ \E i \in DOMAIN getFilePending : GetFileResolved(i)
    \/ extract(1)
    \/ WorkerReceive
    \/ \E r \in DOMAIN runs : RunHeader(r)
    \/ \E r \in DOMAIN runs : RunChunk(r)
    \/ \E i \in DOMAIN outbox :
          extraction.state # "pending" /\ Deliverable(i) /\ MainReceiveAt(i)
    \/ \E i \in DOMAIN outbox : Deliverable(i) /\ ExtractorReceiveAt(i)
    \/ \E t \in LookupTimes, d \in LookupDurations :
          currentSegmentRef # NoSegment /\ LookupCache(t, d)
    \/ \E t \in LookupTimes, d \in LookupDurations : LookupExtracted(t, d)

SpecLookup == InitLookup /\ [][NextLookup]_vars

\* Telemetry lookups in an index of 0 to MaxSamples samples, held by the
\* frame cache of useSeiData and returned by SeiExtractor.extract, at every
\* millisecond from before a segment of IndexDuration milliseconds to past its
\* end (and at times that tell the default rate), with the segment's duration
\* known or not (0).
MaxSamples == 4
IndexDuration == 12
IndexTimes == (-2)..(IndexDuration + 2) \cup {28, 56, 1000}
IndexDurations == {0, IndexDuration}
IndexOf(n) == [i \in 1..n |-> [key |-> i - 1, value |-> decodeProtobuf(<<8, i>>)]]

InitIndex ==
    /\ \E n \in 0..MaxSamples :
          /\ frameCache = IndexOf(n)
          /\ seiData = MapValues(IndexOf(n))
          /\ extraction = [state |-> "done", frames |-> IndexOf(n),
                           result |-> SortedValues(IndexOf(n))]
    /\ call = NoCall
    /\ grid = GridIdle
    /\ files = << >>
    /\ chunkSize = CHUNK_SIZE
    /\ inbox = << >>
    /\ loadsLeft = 0
    /\ aborted = FALSE
    /\ runs = << >>
    /\ outbox = << >>
    /\ lastParse = NoParse
    /\ getFilePending = << >>
    /\ currentSegmentRef = 1
    /\ isLoading = FALSE
    /\ progress = 100
    /\ TimelineIdle

NextIndex ==
    \/ \E t \in IndexTimes, d \in IndexDurations : LookupCache(t, d)
    \/ \E t \in IndexTimes, d \in IndexDurations : LookupExtracted(t, d)

SpecIndex == InitIndex /\ [][NextIndex]_vars

\* MaxFrames 'frame' messages, each with one of two sample indices and one of
\* two samples, so that a message may repeat an earlier one or replace its
\* sample, received by useSeiData or by a pending SeiExtractor.extract.
MaxFrames == 3
FrameMessages ==
    {[type |-> "frame", frame |-> decodeProtobuf(<<8, v>>), frameIndex |-> k] :
        k \in 0..1, v \in 1..2}

InitFrames ==
    /\ outbox \in [1..MaxFrames -> FrameMessages]
    /\ extraction \in {NoExtraction,
                        [state |-> "pending", frames |-> << >>, result |-> << >>]}
    /\ call = NoCall
    /\ grid = GridIdle
    /\ files = << >>
    /\ chunkSize = CHUNK_SIZE
    /\ inbox = << >>
    /\ loadsLeft = 0
    /\ aborted = FALSE
    /\ runs = << >>
    /\ lastParse = NoParse
    /\ getFilePending = << >>
    /\ currentSegmentRef = 1
    /\ frameCache = << >>
    /\ seiData = << >>
    /\ isLoading = TRUE
    /\ progress = 0
    /\ TimelineIdle

NextFrames ==
    \/ extraction.state = "none" /\ MainReceive
    \/ ExtractorReceive

SpecFrames == InitFrames /\ [][NextFrames]_vars

(***************************************************************************)
(* Specifications of the decoder's functions                               *)
(***************************************************************************)
\* Nothing is loaded and no worker runs: a function of the decoder is called
\* on its own.
DecoderOnly ==
    /\ extraction = NoExtraction
    /\ grid = GridIdle
    /\ files = << >>
    /\ chunkSize = CHUNK_SIZE
    /\ inbox = << >>
    /\ loadsLeft = 0
    /\ aborted = FALSE
    /\ runs = << >>
    /\ outbox = << >>
    /\ lastParse = NoParse
    /\ getFilePending = << >>
    /\ currentSegmentRef = NoSegment
    /\ frameCache = << >>
    /\ seiData = << >>
    /\ isLoading = FALSE
    /\ progress = 0
    /\ TimelineIdle

\* The byte sequences of at most n bytes over an alphabet.
RECURSIVE BytesOf(_, _)
BytesOf(alphabet, n) ==
    IF n = 0 THEN {<< >>}
    ELSE LET shorter == BytesOf(alphabet, n - 1)
         IN  shorter \cup {Append(x, b) : x \in shorter, b \in alphabet}

\* The call under way returns.
Returns(fn, ret) ==
    /\ call.fn = fn
    /\ ~call.returned
    /\ call' = [call EXCEPT !.returned = TRUE, !.ret = ret]
    /\ UNCHANGED <<timelineVars, loopVars, envVars, extraction, grid>>
    /\ UNCHANGED <<files, chunkSize, aborted, inbox, runs, outbox, lastParse,
                   loadsLeft, getFilePending, currentSegmentRef, frameCache,
                   seiData, isLoading, progress>>

\* The encoder's byte stuffing: 0x03 is inserted after two consecutive zero
\* bytes whenever the next byte is 0x00..0x03, and the zero run starts again.
RECURSIVE StuffLoop(_, _, _, _)
StuffLoop(x, i, zeroCount, stuffed) ==
    IF i > Len(x) THEN stuffed
    ELSE IF zeroCount >= 2 /\ x[i] <= 3
         THEN StuffLoop(x, i + 1, IF x[i] = 0 THEN 1 ELSE 0,
                        stuffed \o <<3, x[i]>>)
         ELSE StuffLoop(x, i + 1, IF x[i] = 0 THEN zeroCount + 1 ELSE 0,
                        Append(stuffed, x[i]))
Stuff(x) == StuffLoop(x, 1, 0, << >>)

\* stripEmulationPreventionBytes called on the stuffed form of every byte
\* sequence of at most MaxStuffed bytes over 0x00, 0x01, 0x03, 0x04.
MaxStuffed == 5
StuffedInputs == BytesOf({0, 1, 3, 4}, MaxStuffed)

InitStrip ==
    /\ \E x \in StuffedInputs :
          call = [fn |-> "stripEmulationPreventionBytes", data |-> Stuff(x),
                  returned |-> FALSE, ret |-> << >>]
    /\ DecoderOnly

NextStrip ==
    Returns("stripEmulationPreventionBytes", stripEmulationPreventionBytes(call.data))

SpecStrip == InitStrip /\ [][NextStrip]_vars

\* readVarint called at the start of every varint of at most MaxGroups bytes
\* whose 7-bit groups are 0 or 1: every byte but the last has the continuation
\* bit set.
MaxGroups == 10
VarintOf(groups) ==
    [i \in 1..Len(groups) |-> IF i < Len(groups) THEN groups[i] + 128 ELSE groups[i]]
Varints == {VarintOf(g) : g \in BytesOf({0, 1}, MaxGroups) \ {<< >>}}

InitVarint ==
    /\ \E data \in Varints :
          call = [fn |-> "readVarint", data |-> data, pos |-> 0,
                  returned |-> FALSE, ret |-> [value |-> U32(0, 0), bytesRead |-> 0]]
    /\ DecoderOnly

NextVarint == Returns("readVarint", readVarint(call.data, call.pos))

SpecVarint == InitVarint /\ [][NextVarint]_vars

\* decodeProtobuf called on every sequence of at most MaxDecoded bytes that
\* are headers of known fields (0x08 version, 0x25 vehicle_speed_mps, 0x59
\* latitude_deg), headers with the wire types 2 and 3 (0x0a, 0x0b), small
\* values and a continuation byte; and on records of at most MaxFields
\* complete known fields, as they are and with one complete field the schema
\* does not know (number 0, 17 or 2^28, wire type 0, 1, 2 or 5; among them a
\* ten-byte varint, an empty length-delimited value and one whose bytes read
\* as a known field) put in at a field boundary.
MaxDecoded == 5
MaxFields == 2
DecodeAlphabet == {0, 1, 8, 10, 11, 37, 89, 128}
KnownFields ==
    {<<8, 1>>, <<8, 2>>, <<56, 1>>, <<37, 0, 0, 128, 63>>,
     <<89, 0, 0, 0, 0, 0, 0, 240, 63>>}
UnknownFields ==
    {<<0, 7>>, <<136, 1, 5>>, <<136, 1, 0>>, <<141, 1, 1, 2, 3, 4>>,
     <<137, 1, 1, 2, 3, 4, 5, 6, 7, 8>>, <<138, 1, 2, 8, 1>>, <<138, 1, 0>>,
     <<136, 1, 255, 255, 255, 255, 255, 255, 255, 255, 255, 1>>,
     <<128, 128, 128, 128, 8, 3>>}

RECURSIVE Flatten(_)
Flatten(fields) == IF fields = << >> THEN << >> ELSE Head(fields) \o Flatten(Tail(fields))
Records == UNION {[1..n -> KnownFields] : n \in 0..MaxFields}
PutIn(record, j, field) ==
    Flatten(SubSeq(record, 1, j)) \o field \o Flatten(SubSeq(record, j + 1, Len(record)))

WithUnknown ==
    UNION {{PutIn(r, j, u) : j \in 0..Len(r), u \in UnknownFields} : r \in Records}

DecodeInputs ==
    BytesOf(DecodeAlphabet, MaxDecoded) \cup {Flatten(r) : r \in Records} \cup WithUnknown

InitDecode ==
    /\ \E data \in DecodeInputs :
          call = [fn |-> "decodeProtobuf", data |-> data, returned |-> FALSE,
                  ret |-> DecodeRun(<< >>)]
    /\ DecoderOnly

NextDecode == Returns("decodeProtobuf", DecodeRun(call.data))

SpecDecode == InitDecode /\ [][NextDecode]_vars

(***************************************************************************)
(* C1: once the worker has handled 'abort', the run that was in progress   *)
(* posts no further 'frame' message (a run's frameIndex grows exactly when *)
(* it posts frames).                                                       *)
(***************************************************************************)
C1_NoFrameAfterAbort ==
    [][\A r \in DOMAIN runs :
          runs[r].abortSeen => runs'[r].frameIndex = runs[r].frameIndex]_vars

(***************************************************************************)
(* C2: after loadSegment for another segment, the frame cache never holds  *)
(* a sample of a file other than that of the segment being loaded.         *)
(***************************************************************************)
C2_CacheOfCurrentSegment ==
    currentSegmentRef # NoSegment =>
        \A i \in 1..Len(frameCache) :
            frameCache[i].value \in SamplesOf(files[currentSegmentRef])

(***************************************************************************)
(* C5: a stream read in chunks, the remainder of each parse prepended to   *)
(* the next chunk, yields the frames (samples and indices) of the parse of *)
(* the whole stream in one call.                                           *)
(***************************************************************************)
C5_SplitEquivalence ==
    \A r \in DOMAIN runs :
        runs[r].pc = "done" =>
            FramesIn(outbox)
              = PostFrames(parseNalUnitsInChunk(MdatOf(files[runs[r].file]), 0).frames)

(***************************************************************************)
(* C6: parseNalUnitsInChunk drops no byte: it returns the unread tail as   *)
(* 'remaining' whenever it stops before the end of the buffer, and null    *)
(* only when it has consumed the whole buffer.                             *)
(***************************************************************************)
C6_NoByteDropped ==
    LET chunk == lastParse.chunk
        res == lastParse.result
    IN  IF res.pos < Len(chunk)
        THEN res.remaining = Slice(chunk, res.pos, Len(chunk))
        ELSE res.remaining = NoBytes


(***************************************************************************)
(* Specification of clip loading                                           *)
(***************************************************************************)
\* No file is being extracted.
WorkerIdle ==
    /\ files = << >>
    /\ chunkSize = 1
    /\ inbox = << >>
    /\ loadsLeft = 0
    /\ WorkerQuiet

\* The times (ms) the user seeks to.
SeekTimes == {50, VideoDuration + 50}
MaxUserOps == 1

\* The player is given clips while earlier loads are still probing, and the
\* user seeks in between.
InitLoad ==
    /\ WorkerIdle
    /\ clip = NoClip
    /\ segmentDurations = << >>
    /\ currentSegmentIndex = 0
    /\ currentTime = 0
    /\ isReady = FALSE
    /\ loadErrors = 0
    /\ pendingSeekTimeRef = NoSeek
    /\ loads = << >>
    /\ videos = ClearedVideos
    /\ playingRef = TRUE
    /\ loopOn = FALSE
    /\ frameCount = 0
    /\ lastTimes = ZeroCounts
    /\ stallCounts = ZeroCounts
    /\ recoveryAttempts = ZeroCounts
    /\ recovery = NoActions
    /\ driftFix = NoActions
    /\ lastRecovery = NoActions
    /\ inRun = [cam \in CAMERAS |-> TRUE]
    /\ heldRun = ZeroCounts
    /\ driftRun = ZeroCounts
    /\ starveRun = ZeroCounts
    /\ seekRun = 0
    /\ lostCounts = FALSE
    /\ prevFront = 0
    /\ phase = "env"
    /\ stuck = [cam \in CAMERAS |-> FALSE]
    /\ stallsLeft = 0
    /\ frameStep = FrameStep
    /\ userLeft = MaxUserOps

NextLoad ==
    \/ \E c \in DOMAIN Clips : loadClip(c)
    \/ \E l \in DOMAIN loads : ProbeResolved(l)
    \/ \E t \in SeekTimes : seekTo(t)
    \/ \E cam \in CAMERAS : SourceLoaded(cam)

SpecLoad == InitLoad /\ [][NextLoad]_vars

\* The durations loadClip computes for clip c.
DurationsOf(c) == [i \in 1..Len(Clips[c]) |-> ProbedDuration(Clips[c][i])]

\* C3: once no load is probing any more, the durations applied are those of
\* the clip loaded last (the result of an abandoned load is never applied).
C3_LatestLoadWins ==
    (clip # NoClip /\ \A l \in DOMAIN loads : loads[l].wait = 0)
        => segmentDurations = DurationsOf(clip)

\* C4: a step that starts loadClip leaves no pending seek target behind.
C4_LoadDiscardsSeek ==
    [][(clip # NoClip /\ Len(loads') > Len(loads)) => pendingSeekTimeRef' = NoSeek]_vars


(***************************************************************************)
(* Specification of playback: the frame loop and its environment           *)
(***************************************************************************)
MaxStalls == 1

\* A loaded clip of one segment is playing on every camera, the loop has just
\* started; a slave camera's playback may stop advancing and resume, and the
\* user seeks inside the segment, pauses and resumes.
InitStall ==
    /\ WorkerIdle
    /\ clip = 1
    /\ segmentDurations = DurationsOf(1)
    /\ currentSegmentIndex = 0
    /\ currentTime = 0
    /\ isReady = TRUE
    /\ loadErrors = 0
    /\ pendingSeekTimeRef = NoSeek
    /\ loads = <<[clip |-> 1, wait |-> 0, durations |-> DurationsOf(1), errors |-> 0]>>
    /\ videos = [cam \in CAMERAS |->
                    [pos |-> 0, paused |-> FALSE, readyState |-> 4, src |-> TRUE,
                     duration |-> Clips[1][1].duration]]
    /\ playingRef = TRUE
    /\ loopOn = TRUE
    /\ frameCount = 0
    /\ lastTimes = ZeroCounts
    /\ stallCounts = ZeroCounts
    /\ recoveryAttempts = ZeroCounts
    /\ recovery = NoActions
    /\ driftFix = NoActions
    /\ lastRecovery = NoActions
    /\ inRun = [cam \in CAMERAS |-> TRUE]
    /\ heldRun = ZeroCounts
    /\ driftRun = ZeroCounts
    /\ starveRun = ZeroCounts
    /\ seekRun = 0
    /\ lostCounts = FALSE
    /\ prevFront = 0
    /\ phase = "env"
    /\ stuck = [cam \in CAMERAS |-> FALSE]
    /\ stallsLeft = MaxStalls
    /\ frameStep = FrameStep
    /\ userLeft = MaxUserOps

NextStall ==
    \/ Advance
    \/ Tick
    \/ \E cam \in Slaves : StuckChanges(cam)
    \/ phase = "env" /\ seekTo(50)
    \/ phase = "env" /\ pause
    \/ phase = "env" /\ play

SpecStall == InitStall /\ [][NextStall]_vars


\* The stall check of frameLoop runs on a slave camera in the tick that is due.
StallChecked(cam) ==
    /\ loopOn
    /\ phase = "tick"
    /\ pendingSeekTimeRef = NoSeek
    /\ ~videos["front"].paused
    /\ Abs(videos["front"].pos - lastTimes["front"]) > PROGRESS_EPSILON
    /\ ~videos[cam].paused
    /\ videos[cam].readyState >= MIN_READY_PLAY

\* The position of the camera is the one the previous tick saw.
Held(cam) == Abs(videos[cam].pos - lastTimes[cam]) <= PROGRESS_EPSILON

\* C7: a slave camera that is playing with data and whose position stays
\* constant from tick to tick while the front camera progresses and no seek
\* is pending gets its first recovery on the 30th such tick and not before,
\* that recovery is tier 0 (play), and the next one comes on the 60th tick
\* and is tier 1 (seek to the front position, then play).
C7_StallEscalation ==
    \A cam \in Slaves :
        (inRun[cam] /\ heldRun[cam] >= 1) =>
            recovery[cam] =
                IF heldRun[cam] = STALL_THRESHOLD_FRAMES THEN "play"
                ELSE IF heldRun[cam] = 2 * STALL_THRESHOLD_FRAMES THEN "seek+play"
                ELSE "none"

C7_SecondStallIsTierOne ==
    \E cam \in Slaves :
        /\ inRun[cam]
        /\ heldRun[cam] = 2 * STALL_THRESHOLD_FRAMES
        /\ recovery[cam] = "seek+play"
        /\ videos[cam].pos = videos["front"].pos

\* C8: for a slave camera that nothing but its recoveries moves, the recovery
\* that follows a tier 1 recovery (seek to the front position, then play) is
\* the tier 2 recovery (nudge).
C8_TierTwoFollowsTierOne ==
    [][\A cam \in Slaves :
          (phase = "tick" /\ lastRecovery[cam] = "seek+play" /\ recovery'[cam] # "none")
              => recovery'[cam] = "nudge"]_vars

\* C9: a tick that sees the position of a slave camera changed resets its
\* stall count to 0 and leaves its recovery tier as it was.
C9_TierKeptOnProgress ==
    [][\A cam \in Slaves :
          (StallChecked(cam) /\ ~Held(cam))
              => /\ stallCounts'[cam] = 0
                 /\ recoveryAttempts'[cam] = recoveryAttempts[cam]]_vars

\* C10: the tick that completes a seek (it clears the pending target) leaves
\* every camera at recovery tier 0.
C10_SeekResetsTier ==
    [][(pendingSeekTimeRef # NoSeek /\ pendingSeekTimeRef' = NoSeek)
          => \A cam \in CAMERAS : recoveryAttempts'[cam] = 0]_vars


(***************************************************************************)
(* Specification of seeking and synchronisation                            *)
(***************************************************************************)
\* The time (ms) between two animation frames of a slow display.
SlowFrameStep == 50
\* The times (ms) the user seeks to: inside the first segment; inside the
\* second one, nearer to its start than the seek tolerance, and further; and
\* in the part of the timeline that the defaulted duration of the second
\* segment adds after the end of its media.
SyncSeekTimes ==
    {LongDuration \div 2, LongDuration + SEEK_CONVERGE_TOLERANCE \div 2,
     LongDuration + LongDuration \div 2,
     LongDuration + LongDuration + LongDuration \div 2}

\* The finished loadClip invocation of clip c.
Loaded(c) ==
    [clip |-> c, wait |-> 0, durations |-> DurationsOf(c),
     errors |-> Cardinality({k \in DOMAIN Clips[c] : Clips[c][k].probe = "error"})]

\* A loaded clip of two long segments is playing on every camera of a slow
\* display.
LongClipPlaying ==
    /\ WorkerIdle
    /\ clip = 3
    /\ segmentDurations = DurationsOf(3)
    /\ currentSegmentIndex = 0
    /\ currentTime = 0
    /\ isReady = TRUE
    /\ loadErrors = Loaded(3).errors
    /\ pendingSeekTimeRef = NoSeek
    /\ videos = [cam \in CAMERAS |->
                    [pos |-> 0, paused |-> FALSE, readyState |-> 4, src |-> TRUE,
                     duration |-> Clips[3][1].duration]]
    /\ playingRef = TRUE
    /\ loopOn = TRUE
    /\ frameCount = 0
    /\ lastTimes = ZeroCounts
    /\ stallCounts = ZeroCounts
    /\ recoveryAttempts = ZeroCounts
    /\ recovery = NoActions
    /\ driftFix = NoActions
    /\ lastRecovery = NoActions
    /\ inRun = [cam \in CAMERAS |-> TRUE]
    /\ heldRun = ZeroCounts
    /\ driftRun = ZeroCounts
    /\ starveRun = ZeroCounts
    /\ seekRun = 0
    /\ lostCounts = FALSE
    /\ prevFront = 0
    /\ phase = "env"
    /\ frameStep = SlowFrameStep

\* Synchronisation: while the clip plays through its segments, a camera
\* stalls, resumes or skips ahead.
InitSync ==
    /\ LongClipPlaying
    /\ loads = <<Loaded(3)>>
    /\ stuck = [cam \in CAMERAS |-> FALSE]
    /\ stallsLeft = MaxStalls
    /\ userLeft = 0

NextSync ==
    \/ Advance
    \/ Tick
    \/ \E cam \in CAMERAS : StuckChanges(cam)
    \/ \E cam \in Slaves : Skips(cam)
    \/ \E cam \in CAMERAS : SourceLoaded(cam)

SpecSync == InitSync /\ [][NextSync]_vars

\* Seeking: while the clip plays, with the back camera stalled or not, the
\* user seeks within or across the segments, pauses or resumes.
InitSeek ==
    /\ LongClipPlaying
    /\ loads = <<Loaded(3)>>
    /\ stuck \in {[cam \in CAMERAS |-> FALSE], [cam \in CAMERAS |-> cam = "back"]}
    /\ stallsLeft = 0
    /\ userLeft = MaxUserOps

NextSeek ==
    \/ Advance
    \/ Tick
    \/ \E cam \in CAMERAS : SourceLoaded(cam)
    \/ \E t \in SyncSeekTimes : phase = "env" /\ seekTo(t)
    \/ phase = "env" /\ pause
    \/ phase = "env" /\ play

SpecSeek == InitSeek /\ [][NextSeek]_vars

\* Resolving a seek: the clip plays on every camera, nothing stalls, the user
\* seeks once; the browser keeps calling the animation frame callback, time
\* keeps passing and the sources VideoGrid assigns get loaded.
InitResolve ==
    /\ LongClipPlaying
    /\ loads = <<Loaded(3)>>
    /\ stuck = [cam \in CAMERAS |-> FALSE]
    /\ stallsLeft = 0
    /\ userLeft = MaxUserOps

NextResolve ==
    \/ Advance
    \/ Tick
    \/ \E cam \in CAMERAS : SourceLoaded(cam)
    \/ \E t \in SyncSeekTimes : phase = "env" /\ seekTo(t)

SpecResolve ==
    /\ InitResolve
    /\ [][NextResolve]_vars
    /\ WF_vars(Tick)
    /\ WF_vars(Advance)
    /\ \A cam \in CAMERAS : WF_vars(SourceLoaded(cam))

\* Switching: the clip, loaded after another one, plays with the back camera
\* stalled or not, and the user loads a clip.
InitSwitch ==
    /\ LongClipPlaying
    /\ loads = <<Loaded(1), Loaded(3)>>
    /\ stuck \in {[cam \in CAMERAS |-> FALSE], [cam \in CAMERAS |-> cam = "back"]}
    /\ stallsLeft = 0
    /\ userLeft = 0

NextSwitch ==
    \/ Advance
    \/ Tick
    \/ \E cam \in CAMERAS : SourceLoaded(cam)
    \/ \E c \in DOMAIN Clips : phase = "env" /\ loadClip(c)
    \/ \E l \in DOMAIN loads : ProbeResolved(l)

SpecSwitch == InitSwitch /\ [][NextSwitch]_vars

\* Segments: the clip plays through its segments to its end; at any moment
\* the user seeks once (into a segment, or to the end of the timeline), and
\* the player is given a clip once.
SegmentSeekTimes ==
    {LongDuration \div 2, LongDuration + LongDuration \div 2,
     LongDuration + DEFAULT_SEGMENT_DURATION}

InitSegments ==
    /\ LongClipPlaying
    /\ loads = <<Loaded(3)>>
    /\ stuck = [cam \in CAMERAS |-> FALSE]
    /\ stallsLeft = 0
    /\ userLeft = MaxUserOps

NextSegments ==
    \/ Advance
    \/ Tick
    \/ \E cam \in CAMERAS : SourceLoaded(cam)
    \/ \E c \in DOMAIN Clips : phase = "env" /\ Len(loads) = 1 /\ loadClip(c)
    \/ \E l \in DOMAIN loads : ProbeResolved(l)
    \/ \E t \in SegmentSeekTimes : phase = "env" /\ seekTo(t)

SpecSegments == InitSegments /\ [][NextSegments]_vars

\* Grid: the grid is given one segment after another (or none) while the
\* loads of earlier segments are still pending, and is unmounted at any moment.
InitGrid ==
    /\ WorkerIdle
    /\ TimelineIdle

NextGrid ==
    \/ \E segment \in GridSegments \cup {NoGridSegment} : SegmentChanges(segment)
    \/ Unmount
    \/ \E e \in DOMAIN grid.effects, cam \in CAMERAS : LoadVideoUrlResolved(e, cam)
    \/ \E e \in DOMAIN grid.effects, cam \in CAMERAS : LoadVideoUrlRejected(e, cam)
    \/ \E e \in DOMAIN grid.effects : AllSettled(e)

SpecGrid == InitGrid /\ [][NextGrid]_vars

\* Counts: a clip of one short segment plays on a fast display with the back
\* camera stalled from the start or not; between two frames cameras, the
\* front camera among them, stall or resume.

InitCounts ==
    /\ WorkerIdle
    /\ clip = 1
    /\ segmentDurations = DurationsOf(1)
    /\ currentSegmentIndex = 0
    /\ currentTime = 0
    /\ isReady = TRUE
    /\ loadErrors = 0
    /\ pendingSeekTimeRef = NoSeek
    /\ loads = <<Loaded(1)>>
    /\ videos = [cam \in CAMERAS |->
                    [pos |-> 0, paused |-> FALSE, readyState |-> 4, src |-> TRUE,
                     duration |-> Clips[1][1].duration]]
    /\ playingRef = TRUE
    /\ loopOn = TRUE
    /\ frameCount = 0
    /\ lastTimes = ZeroCounts
    /\ stallCounts = ZeroCounts
    /\ recoveryAttempts = ZeroCounts
    /\ recovery = NoActions
    /\ driftFix = NoActions
    /\ lastRecovery = NoActions
    /\ inRun = [cam \in CAMERAS |-> TRUE]
    /\ heldRun = ZeroCounts
    /\ driftRun = ZeroCounts
    /\ starveRun = ZeroCounts
    /\ seekRun = 0
    /\ lostCounts = FALSE
    /\ prevFront = 0
    /\ phase = "env"
    /\ stuck \in {[cam \in CAMERAS |-> FALSE], [cam \in CAMERAS |-> cam = "back"]}
    /\ stallsLeft = MaxStalls
    /\ frameStep = FrameStep
    /\ userLeft = 0

NextCounts ==
    \/ Advance
    \/ Tick
    \/ \E cams \in (SUBSET CAMERAS) \ {{}} : StuckChangesFor(cams)

SpecCounts == InitCounts /\ [][NextCounts]_vars

\* The time (ms) between two animation frames of a 60 Hz display.
NormalFrameStep == 16

\* Starvation: the clip plays on every camera of a 60 Hz display, and at some
\* moment the playback of the back camera stops advancing for good.
InitStarve ==
    /\ WorkerIdle
    /\ clip = 3
    /\ segmentDurations = DurationsOf(3)
    /\ currentSegmentIndex = 0
    /\ currentTime = 0
    /\ isReady = TRUE
    /\ loadErrors = Loaded(3).errors
    /\ pendingSeekTimeRef = NoSeek
    /\ loads = <<Loaded(3)>>
    /\ videos = [cam \in CAMERAS |->
                    [pos |-> 0, paused |-> FALSE, readyState |-> 4, src |-> TRUE,
                     duration |-> Clips[3][1].duration]]
    /\ playingRef = TRUE
    /\ loopOn = TRUE
    /\ frameCount = 0
    /\ lastTimes = ZeroCounts
    /\ stallCounts = ZeroCounts
    /\ recoveryAttempts = ZeroCounts
    /\ recovery = NoActions
    /\ driftFix = NoActions
    /\ lastRecovery = NoActions
    /\ inRun = [cam \in CAMERAS |-> TRUE]
    /\ heldRun = ZeroCounts
    /\ driftRun = ZeroCounts
    /\ starveRun = ZeroCounts
    /\ seekRun = 0
    /\ lostCounts = FALSE
    /\ prevFront = 0
    /\ phase = "env"
    /\ stuck = [cam \in CAMERAS |-> FALSE]
    /\ stallsLeft = MaxStalls
    /\ frameStep = NormalFrameStep
    /\ userLeft = 0

NextStarve ==
    \/ Advance
    \/ Tick
    \/ \E cam \in Slaves : StuckChanges(cam)
    \/ \E cam \in CAMERAS : SourceLoaded(cam)

SpecStarve == InitStarve /\ [][NextStarve]_vars

\* A tick of the loop that ends with the seek still pending.
TickInSeek == phase = "tick" /\ phase' = "env" /\ pendingSeekTimeRef' # NoSeek

IsTick == phase = "tick" /\ phase' = "env"

\* The unified time of the front camera's position: the start of the current
\* segment plus the position.
FrontTime ==
    (IF currentSegmentIndex < Len(segmentTimings)
     THEN segmentTimings[currentSegmentIndex + 1].startTime ELSE 0)
    + videos["front"].pos

\* C12: a tick that starts with a seek pending leaves the reported time as it
\* is; a tick that starts with no seek pending reports the start of the
\* current segment plus the position of the front camera.
C12_TimeHeldInSeek ==
    [][IsTick =>
          currentTime' = IF pendingSeekTimeRef # NoSeek THEN currentTime
                         ELSE FrontTime]_vars

\* C12: ticks have run with the seek pending, and the reported time is held at
\* a value that is not the time of the front camera's position.
C12_HeldTimeDiffers ==
    /\ seekRun = MaxSeekRun
    /\ currentTime # FrontTime

\* C13: a ready slave camera is never left further than the drift threshold
\* from the front camera by a whole throttle interval of ticks in a row on
\* which no seek is pending and the front camera is playing and advancing.
C13_DriftCorrectedInInterval ==
    \A cam \in Slaves : driftRun[cam] < SYNC_THROTTLE_FRAMES

\* C13: the back camera has skipped ahead, no camera has stalled, and the last
\* tick has set the back camera to within the threshold of the front camera.
C13_SkipCorrected ==
    /\ stallsLeft < MaxStalls
    /\ \A cam \in CAMERAS : ~stuck[cam]
    /\ driftFix["back"] = "seek"
    /\ phase = "env"
    /\ Abs(videos["back"].pos - videos["front"].pos) <= SYNC_DRIFT_THRESHOLD


FrontIdle ==
    LET front == SeekEnforcer.videos["front"]
    IN  front.paused \/ ~Moved(front.pos, prevFront)

\* C15: a tick on which the front camera is paused or has not moved since the
\* tick before increments no slave camera's stall count, issues no recovery
\* action for a slave camera and applies no drift correction.
C15_SlavesLeftAlone ==
    [][IsTick /\ FrontIdle =>
          \A cam \in Slaves :
              /\ stallCounts'[cam] <= stallCounts[cam]
              /\ recovery'[cam] = "none"
              /\ driftFix'[cam] = "none"]_vars

\* C15: the front camera, playing, is stalled and has not moved since the tick
\* before, and the last tick has issued a recovery for it.
C15_FrontStalled ==
    /\ stuck["front"]
    /\ recovery["front"] # "none"
    /\ prevFront = videos["front"].pos
    /\ ~videos["front"].paused

\* A call of seekTo that changes the reported time or the pending target.
SeekStep ==
    /\ userLeft' # userLeft
    /\ currentTime' # currentTime \/ pendingSeekTimeRef' # pendingSeekTimeRef

C17_OpenMdatReadToEnd ==
    \A r \in DOMAIN runs :
        LET file == files[runs[r].file]
        IN  getUint32(file, 0) = 0 =>
               /\ runs[r].pc # "header" => runs[r].mdatEnd = Len(file)
               /\ runs[r].pc = "done" =>
                     runs[r].frameIndex
                        = Len(parseNalUnitsInChunk(MdatOf(file), 0).frames)

\* What a walk over the boxes of a buffer meets first: a box whose declared
\* size is smaller than its header ("malformed", also a header that announces
\* an extended size the buffer has no room for), an 'mdat' box ("mdat"), or
\* the end of the buffer ("exhausted").
RECURSIVE BoxWalk(_, _)
BoxWalk(data, pos) ==
    IF ~(pos < Len(data) - 8) THEN "exhausted"
    ELSE
    LET size32 == getUint32(data, pos)
        headerSize == IF size32 = 1 THEN 16 ELSE 8
        declared == IF size32 = 1
                    THEN (IF pos + 16 > Len(data) THEN 0
                          ELSE getBigUint64(data, pos + 8))
                    ELSE IF size32 = 0 THEN Len(data) - pos
                    ELSE size32
    IN  IF declared < headerSize THEN "malformed"
        ELSE IF Slice(data, pos + 4, pos + 8) = MDAT THEN "mdat"
        ELSE BoxWalk(data, pos + declared)

\* C18: over a buffer whose boxes, walked from the start, show a box with a
\* declared size smaller than its header, or none of type 'mdat', each of the
\* three scans returns offset -1.
C18_MalformedIsNotFound ==
    \A k \in DOMAIN files :
        BoxWalk(files[k], 0) # "mdat" =>
            /\ findMdatInChunk(files[k], 0).offset = -1
            /\ scanForMdat(files[k]).offset = -1
            /\ findMdat(files[k]).offset = -1

\* No four bytes of the file spell 'mdat'.
NoMdat(file) == \A pos \in 0..Len(file) : Slice(file, pos, pos + 4) # MDAT

\* C19: a run over a file without an 'mdat' box posts nothing but 'complete'
\* with totalFrames 0.
C19_NoMdatCompletesEmpty ==
    \A r \in DOMAIN runs :
        NoMdat(files[runs[r].file]) =>
            /\ \A i \in DOMAIN outbox :
                  outbox[i] = [type |-> "complete", totalFrames |-> 0]
            /\ runs[r].pc = "done" => outbox # << >>

\* The consumer takes an 'error' message from the worker.
TakesError ==
    /\ outbox # << >>
    /\ Head(outbox).type = "error"
    /\ outbox' = Tail(outbox)

\* C20: a run whose read fails posts one 'error' message there and then;
\* afterwards it reads no more and the worker posts nothing; useSeiData, taking
\* the message, is no longer loading, and SeiExtractor.extract, taking it,
\* resolves with an empty list.
C20_ReadFailureEndsRun ==
    [][/\ \A r \in DOMAIN runs :
             /\ ~runs[r].failed /\ runs'[r].failed =>
                   /\ Len(outbox') = Len(outbox) + 1
                   /\ outbox'[Len(outbox')].type = "error"
             /\ runs[r].failed =>
                   /\ runs'[r] = runs[r]
                   /\ outbox' \in {outbox, Tail(outbox)}
       /\ TakesError =>
             IF extraction.state = "pending"
             THEN extraction'.state = "done" /\ extraction'.result = << >>
             ELSE ~isLoading']_vars

\* C20: a read has failed after the run had posted samples, and
\* SeiExtractor.extract, which had received them, has resolved with an empty
\* list.
C20_FailedExtractionIsEmpty ==
    /\ \E r \in DOMAIN runs : runs[r].failed
    /\ extraction.state = "done"
    /\ extraction.frames # << >>
    /\ extraction.result = << >>

\* The terminal messages of the worker and how many of them a log holds.
Terminal(entry) == entry.type \in {"complete", "error"}
TerminalsIn(log) == Len(SelectSeq(log, Terminal))

\* A run that is over has posted one terminal message, the last message of its
\* log; a run that is not over has posted none.
RunSettled(run) ==
    IF run.pc = "done"
    THEN /\ TerminalsIn(run.log) = 1
         /\ run.log # << >>
         /\ Terminal(run.log[Len(run.log)])
    ELSE TerminalsIn(run.log) = 0

\* C21: every extraction run started by a 'start' message with a file posts
\* exactly one terminal message, 'complete' or 'error', and posts no 'frame'
\* or 'progress' message after it; this also holds for a run that is aborted.
\* At every moment each run is settled, a log only grows and a log that holds
\* its terminal message never changes again, and every run started comes to
\* its end.
C21_OneTerminalMessage ==
    /\ [](\A r \in DOMAIN runs : RunSettled(runs[r]))
    /\ [][\A r \in DOMAIN runs :
             /\ Len(runs'[r].log) >= Len(runs[r].log)
             /\ SubSeq(runs'[r].log, 1, Len(runs[r].log)) = runs[r].log
             /\ TerminalsIn(runs[r].log) > 0 => runs'[r].log = runs[r].log]_vars
    /\ \A r \in 1..MaxLoads :
          [](r \in DOMAIN runs => <>(r \in DOMAIN runs /\ runs[r].pc = "done"))

\* An aborted run that posted a sample is over, next to a run that ended on
\* an error.
C21_AbortedRunCompleted ==
    /\ \E r \in DOMAIN runs :
          /\ runs[r].abortSeen
          /\ runs[r].pc = "done"
          /\ runs[r].log # << >>
          /\ runs[r].log[1].type = "frame"
          /\ runs[r].log[Len(runs[r].log)].type = "complete"
    /\ \E r \in DOMAIN runs :
          /\ runs[r].pc = "done"
          /\ Len(runs[r].log) = 1
          /\ runs[r].log[1].type = "error"

\* The sample indices of the 'frame' messages of a log, in posting order.
IsFrame(entry) == entry.type = "frame"
FrameIndices(log) ==
    LET fs == SelectSeq(log, IsFrame) IN [i \in 1..Len(fs) |-> fs[i].n]

\* C22: within one extraction run the 'frame' messages carry the sample
\* indices 0, 1, 2, ... in posting order with no gap and no repetition, also
\* across chunk boundaries and carried remainders, and the totalFrames of the
\* final 'complete' message is the number of 'frame' messages the run posted.
C22_IndicesContiguous ==
    \A r \in DOMAIN runs :
        LET log == runs[r].log
            indices == FrameIndices(log)
        IN  /\ indices = [i \in 1..Len(indices) |-> i - 1]
            /\ \A i \in 1..Len(log) :
                  log[i].type = "complete" => log[i].n = Len(indices)

\* A run read in chunks smaller than a unit, so that every unit reaches the
\* parser through a carried remainder, is over with three samples posted
\* behind different chunks.
C22_ThreeSamplesAcrossChunks ==
    /\ chunkSize < Len(SeiUnit(1))
    /\ \E r \in DOMAIN runs :
          /\ runs[r].pc = "done"
          /\ FrameIndices(runs[r].log) = <<0, 1, 2>>
          /\ \E i \in 2..Len(runs[r].log) :
                /\ runs[r].log[i].type = "frame"
                /\ runs[r].log[i - 1].type = "progress"
                /\ runs[r].log[i].n = 2

\* The samples of the looked-up file, in stream order, and the sample a lookup
\* at `time` has to return from them.
FileSamples ==
    LET fs == parseNalUnitsInChunk(MdatOf(LookupFile), 0).frames
    IN  [i \in 1..Len(fs) |-> fs[i].data]
SampleAt(time, duration) ==
    LET k == TargetIndex(time, Len(FileSamples), duration)
    IN  IF k < 0 THEN NoSample ELSE FileSamples[Min(k, Len(FileSamples) - 1) + 1]

\* C23: for one extraction run, a telemetry lookup made after all of the run's
\* 'frame' messages have been applied returns the same sample for every
\* delivery order of those messages (the sample the stream order gives), and
\* SeiExtractor.extract returns the samples sorted by ascending sample index
\* whatever order the 'frame' messages arrived in before 'complete'.
C23_OrderDoesNotMatter ==
    /\ (call.fn = "useSeiData.getTelemetryAtTime"
           /\ Len(call.index) = Len(FileSamples))
          => call.ret = SampleAt(call.time, call.duration)
    /\ extraction.state = "done" => extraction.result = FileSamples

\* The extractor received the last sample first and the cache holds the
\* second sample before the first; a lookup in the full cache returned the
\* second sample.
C23_LateSamplesFirst ==
    /\ extraction.state = "done"
    /\ extraction.frames[1].key = 2
    /\ call.fn = "useSeiData.getTelemetryAtTime"
    /\ Len(call.index) = 3
    /\ call.index[1].key = 1
    /\ call.index[2].key = 0
    /\ call.ret = FileSamples[2]

\* The index of a call holds the samples 0..n-1: the keys of a cache are
\* these, and an array holds nothing else.
HoldsAll(index) ==
    call.fn = "useSeiData.getTelemetryAtTime"
       => {index[i].key : i \in 1..Len(index)} = 0..(Len(index) - 1)
SampleOf(index, k) ==
    IF call.fn = "useSeiData.getTelemetryAtTime" THEN MapGet(index, k) ELSE index[k + 1]
IsLookup == call.fn \in {"useSeiData.getTelemetryAtTime", "SeiExtractor.getTelemetryAtTime"}

C25_NoSampleOnlyWhenEmpty ==
    (IsLookup /\ HoldsAll(call.index))
    => IF Len(call.index) = 0 THEN call.ret = NoSample
       ELSE LET n == Len(call.index)
                k == TargetIndex(call.time, n, call.duration)
            IN  call.ret = SampleOf(call.index, Max(0, Min(k, n - 1)))

\* The index a 'frame' message is applied to: the frame cache of useSeiData
\* or the frames of the pending extraction.
FrameIndex == IF extraction.state = "none" THEN frameCache ELSE extraction.frames
Repeated(msg) ==
    /\ MapHas(FrameIndex, msg.frameIndex)
    /\ MapGet(FrameIndex, msg.frameIndex) = msg.frame

\* C26: applying the same 'frame' message (same sample index, same sample) to
\* the telemetry index twice leaves the index in the same state as applying
\* it once: same set of indices, same sample at each index, same sample
\* count.  A step that applies a message to an index that holds its sample at
\* its sample index already leaves the index as it is.
C26_SameFrameTwice ==
    [][(outbox # << >> /\ outbox' = Tail(outbox) /\ Repeated(Head(outbox)))
          => /\ frameCache' = frameCache
             /\ extraction'.frames = extraction.frames]_vars

\* The index holds a sample from an earlier message and the message due next
\* is that message again, behind a message for the other sample index.
C26_RepeatIsDue ==
    /\ Len(outbox) = 1
    /\ Len(FrameIndex) = 2
    /\ Repeated(outbox[1])
    /\ FrameIndex[1].key = outbox[1].frameIndex

\* C27: stripEmulationPreventionBytes inverts the encoder's byte stuffing: for
\* every byte sequence x, stuffing x by the encoder's rule and then stripping
\* returns exactly x.
C27_StripInvertsStuffing ==
    (call.fn = "stripEmulationPreventionBytes" /\ call.returned)
    => \A x \in StuffedInputs : call.data = Stuff(x) => call.ret = x

\* The strip returned 00 00 00 00 01 from a sequence stuffed in two places.
C27_StuffedTwice ==
    /\ call.fn = "stripEmulationPreventionBytes"
    /\ call.returned
    /\ call.data = <<0, 0, 3, 0, 0, 3, 1>>
    /\ call.ret = <<0, 0, 0, 0, 1>>

\* The integer a varint encodes, modulo 2^32: the groups at the bit positions
\* 0, 7, 14, 21 and 28, the last one cut at bit 31.
RECURSIVE LowBits(_, _)
LowBits(data, i) ==
    IF i > Len(data) \/ 7 * (i - 1) >= 32 THEN U32(0, 0)
    ELSE U32Or(U32Shl(data[i] % 128, 7 * (i - 1)), LowBits(data, i + 1))

\* C28: the overflow cap of readVarint prevents corruption: for every varint
\* of up to 10 bytes, the continuation bytes whose shift position is 32 or
\* more do not alter the low-order bits already decoded, so that the value
\* returned is the encoded integer modulo 2^32.
C28_VarintModulo ==
    (call.fn = "readVarint" /\ call.returned)
    => /\ call.ret.bytesRead = Len(call.data)
       /\ call.ret.value = LowBits(call.data, 1)

\* The names of the schema, and the wire type of the header at a position.
FieldNames == {SEI_FIELDS[n].name : n \in DOMAIN SEI_FIELDS}
WireTypeAt(data, pos) == readVarint(data, pos).value.lo % 8

\* C29: decodeProtobuf terminates and returns a (possibly empty or partial)
\* sample without raising for every input byte sequence: each loop iteration
\* advances the read position by at least one byte, a fixed-width field that
\* would run past the buffer end or a wire type outside {0,1,2,5} ends
\* decoding with the fields parsed so far, and no read is made past the end
\* of the buffer.
C29_DecodeIsTotal ==
    (call.fn = "decodeProtobuf" /\ call.returned)
    => LET run == call.ret
           trail == run.trail
           n == Len(call.data)
           last == trail[Len(trail)]
       IN  /\ DOMAIN run.result \subseteq FieldNames
           /\ \A i \in 1..Len(trail) : trail[i] < n
           /\ \A i \in 1..(Len(trail) - 1) : trail[i + 1] >= trail[i] + 1
           /\ run.reach <= n
           /\ run.left \in {"end", "break", "return", "default"}
           /\ run.left # "end" =>
                 run.result = decodeProtobuf(Slice(call.data, 0, last))
           /\ \A i \in 1..Len(trail) :
                 /\ WireTypeAt(call.data, trail[i]) \notin {0, 1, 2, 5}
                       => i = Len(trail) /\ run.left = "default"
                 /\ run.left = "return" /\ i = Len(trail)
                       => WireTypeAt(call.data, trail[i]) \in {1, 5}

\* The decoder returned the version it had parsed when the value of the
\* float field behind it ran past the end of the buffer.
C29_PartialSample ==
    /\ call.fn = "decodeProtobuf"
    /\ call.returned
    /\ call.data = <<8, 1, 37, 0, 0>>
    /\ call.ret.left = "return"
    /\ call.ret.trail = <<0, 2>>
    /\ call.ret.result = decodeProtobuf(<<8, 1>>)
    /\ DOMAIN call.ret.result = {"version"}

\* C30: unknown fields never desynchronise decoding: inserting, at any field
\* boundary of a well-formed record, a complete field whose number is not in
\* the schema (1..16) and whose wire type is 0, 1, 2 or 5 leaves the decoded
\* sample identical to the sample decoded without that field.
C30_UnknownFieldsSkipped ==
    (call.fn = "decodeProtobuf" /\ call.returned /\ call.data \in WithUnknown)
    => \A r \in Records : \A j \in 0..Len(r) : \A u \in UnknownFields :
          call.data = PutIn(r, j, u)
          => /\ call.ret.result = decodeProtobuf(Flatten(r))
             /\ call.ret.left = "end"
             /\ Len(call.ret.trail) = Len(r) + 1

\* A ten-byte varint of the unknown field 17 stood between version 1 and
\* version 2, and the sample holds the later version.
C30_TenByteVarintBetween ==
    /\ call.fn = "decodeProtobuf"
    /\ call.returned
    /\ call.data = PutIn(<<(<<8, 1>>), (<<8, 2>>)>>, 1,
                         <<136, 1, 255, 255, 255, 255, 255, 255, 255, 255, 255, 1>>)
    /\ call.ret.trail = <<0, 2, 14>>
    /\ call.ret.result = decodeProtobuf(<<8, 1, 8, 2>>)
    /\ call.ret.result["version"] = NumU32(U32(0, 2))

\* C31: every pending seek is eventually resolved: after seekTo(t) for any t
\* in [0, totalDuration], or after an auto-advance, while the loop keeps
\* ticking and position writes take effect, the pending seek is eventually
\* cleared, for every segment of the clip, including segments whose duration
\* was defaulted.
C31_SeekResolves ==
    (pendingSeekTimeRef # NoSeek) ~> (pendingSeekTimeRef = NoSeek)

\* C32: stall recovery is not starved by drift correction: a slave camera that
\* is ready and playing and never advances by itself while the front camera
\* progresses on every tick at normal rate (so that the throttled drift
\* correction repositions it every 30 ticks) still has its stall count reach
\* the threshold and a recovery issued for it; here, within every three
\* periods of the drift correction (90 ticks in a row under those conditions).
C32_StalledSlaveRecovered ==
    \A cam \in Slaves : starveRun[cam] < StarveWindow

\* C33: at most one extraction run is active in the worker: once a later run
\* has been started (an 'abort' and then a 'start' were processed), an earlier
\* run whose chunk read resolves posts no further 'frame' message and
\* performs no further read.
C33_EarlierRunStops ==
    [][\A r \in DOMAIN runs :
          (r < Len(runs) /\ runs[r].abortSeen /\ runs[r].pc = "chunk"
             /\ runs'[r] # runs[r])
          => /\ FrameIndices(runs'[r].log) = FrameIndices(runs[r].log)
             /\ runs'[r].pc = "done"]_vars

\* The tick that is due finds a seek pending and its seek enforcer clears it.
ClearsSeek ==
    /\ loopOn
    /\ phase = "tick"
    /\ pendingSeekTimeRef # NoSeek
    /\ SeekEnforcer.pending = NoSeek

SectionReached ==
    LET se == SeekEnforcer
    IN  /\ se.pending = NoSeek
        /\ ~se.videos["front"].paused
        /\ Moved(se.videos["front"].pos, se.last["front"])

BeforeDrift(cam) ==
    LET se == SeekEnforcer
    IN  IF SectionReached
        THEN SlaveStallCheck(se.videos[cam], se.last[cam], se.counts[cam],
                             recoveryAttempts[cam], se.videos["front"].pos).video
        ELSE se.videos[cam]

\* C35: drift correction writes a slave camera's position only on a tick
\* where no seek is pending, the front camera is not paused and progressing,
\* the throttle counter is a multiple of 30, the camera has a source and
\* readyState >= 2 and its position differs from the front position by more
\* than 0.15 s; a camera within 0.15 s is never repositioned by drift
\* correction (resuming an element that has ended starts it again), and a
\* paused camera is resumed only on such a throttled tick.
C35_DriftCorrectionGuarded ==
    [][IsTick =>
        \A cam \in Slaves :
            LET before == BeforeDrift(cam)
                frontPos == SeekEnforcer.videos["front"].pos
                far == Abs(before.pos - frontPos) > SYNC_DRIFT_THRESHOLD
                due == /\ pendingSeekTimeRef = NoSeek
                       /\ SectionReached
                       /\ frameCount % SYNC_THROTTLE_FRAMES = 0
                       /\ before.src
                       /\ before.readyState >= MIN_READY_PLAY
            IN  /\ driftFix'[cam] \in {"seek", "seek+play"}
                      => /\ due
                         /\ far
                         /\ videos'[cam].pos \in {frontPos, before.duration, 0}
                /\ driftFix'[cam] \in {"play", "seek+play"}
                      => due /\ before.paused /\ ~videos'[cam].paused
                /\ driftFix'[cam] = "none" => videos'[cam] = before
                /\ driftFix'[cam] = "play" => videos'[cam] = Play(before)
                /\ ~(due /\ far) => driftFix'[cam] \in {"none", "play"}
                /\ (before.paused /\ ~videos'[cam].paused) => due]_vars

\* The last tick, a throttled one, found the back camera paused and more than
\* 0.15 s from the front camera, set it to the front position and resumed it.
C35_FarAndPausedCorrected ==
    /\ phase = "env"
    /\ driftFix["back"] = "seek+play"
    /\ ~videos["back"].paused
    /\ videos["back"].pos = videos["front"].pos
    /\ frameCount % SYNC_THROTTLE_FRAMES = 1

\* The step of one frame of wall time on which the playing front element
\* reaches the end of its media (its `ended` event fires).
FrontEnds ==
    /\ phase = "env"
    /\ phase' = "tick"
    /\ ~videos["front"].paused
    /\ Advanced(videos["front"], stuck["front"]).paused

\* C36: the current segment index always lies in [0, segmentCount - 1] of the
\* loaded clip; when the front camera ends on a segment that is not the last,
\* the index increases by exactly 1 and the pending seek target becomes 0;
\* when it ends on the last segment the index is unchanged, no seek is queued
\* and onEnded is invoked (the player pauses every camera).
C36_SegmentIndexInRange ==
    /\ [](clip # NoClip => currentSegmentIndex \in 0..(Len(Clips[clip]) - 1))
    /\ [][FrontEnds =>
            IF currentSegmentIndex < Len(Clips[clip]) - 1
            THEN /\ currentSegmentIndex' = currentSegmentIndex + 1
                 /\ pendingSeekTimeRef' = 0
            ELSE /\ currentSegmentIndex' = currentSegmentIndex
                 /\ pendingSeekTimeRef' = pendingSeekTimeRef
                 /\ ~playingRef'
                 /\ \A cam \in CAMERAS : videos'[cam].paused]_vars

\* The clip played from its first segment through to the end of its last one
\* without a seek or another clip, and onEnded paused the player.
C36_PlayedToTheEnd ==
    /\ userLeft = MaxUserOps
    /\ Len(loads) = 1
    /\ Len(Clips[clip]) > 1
    /\ currentSegmentIndex = Len(Clips[clip]) - 1
    /\ videos["front"].src
    /\ videos["front"].pos = videos["front"].duration
    /\ ~playingRef

\* C37: an object URL whose load was started for a segment is assigned to an
\* element only if, when the load resolves, that segment is still the one
\* given and the run of the effect has not been cleaned up; a URL resolved
\* for an abandoned segment is revoked and is never an element's source, and
\* the source of an element is always a URL of the current, live run that has
\* not been revoked.
C37_StaleUrlNeverAssigned ==
    /\ \A r \in grid.resolved :
          /\ r.assigned => ~r.stale
          /\ r.stale => /\ r.url \in grid.revoked
                        /\ \A cam \in CAMERAS : grid.src[cam] # r.url
    /\ \A cam \in CAMERAS :
          grid.src[cam] # NoUrl =>
              LET effect == grid.effects[grid.src[cam].effect]
              IN  /\ ~effect.isCancelled
                  /\ effect.segment = grid.segment
                  /\ grid.src[cam] \notin grid.revoked

\* Two overlapping loads: the load of the front camera started for the first
\* segment resolved after the grid had been given the second one and was
\* revoked, and the front element plays the URL of the second run.
C37_OverlappingLoads ==
    /\ \E r \in grid.resolved : r.stale /\ r.url = UrlOf(1, "front")
    /\ UrlOf(1, "front") \in grid.revoked
    /\ grid.src["front"] = UrlOf(2, "front")
    /\ grid.effects[1].pending = {"back"}

\* The stall check of a camera in the tick that is due finds the camera
\* stalled for the 30th tick in a row.
ReachesThreshold(cam) ==
    LET se == SeekEnforcer
        front == se.videos["front"]
    IN  /\ FrontChecked(front, se.pending)
        /\ StallReached(se.counts[cam] + 1)
        /\ IF cam = "front"
           THEN ~isFrontProgressing(front.pos, se.last["front"])
           ELSE /\ isFrontProgressing(front.pos, se.last["front"])
                /\ ~se.videos[cam].paused
                /\ se.videos[cam].readyState >= MIN_READY_PLAY
                /\ ~Moved(se.videos[cam].pos, se.last[cam])

\* The action of each recovery tier.
TierAction(cam, attempt) ==
    IF attempt = 0 THEN "play"
    ELSE IF attempt = 1 THEN (IF cam = "front" THEN "reload+play" ELSE "seek+play")
    ELSE "nudge"

CountsInRange ==
    \A cam \in CAMERAS :
        /\ stallCounts[cam] \in 0..(STALL_THRESHOLD_FRAMES - 1)
        /\ recoveryAttempts[cam] \in {0, 1, 2}

RecoveryAtThreshold ==
    IsTick =>
        \A cam \in CAMERAS :
            /\ ReachesThreshold(cam)
                  => /\ recovery'[cam] = TierAction(cam, recoveryAttempts[cam])
                     /\ recoveryAttempts'[cam] = (recoveryAttempts[cam] + 1) % 3
                     /\ stallCounts'[cam] = 0
            /\ recovery'[cam] # "none" => ReachesThreshold(cam)

\* A slave camera without data or paused.
Idle(video) == video.paused \/ video.readyState < MIN_READY_PLAY

C39_PauseRespected ==
    /\ [](~playingRef => \A cam \in CAMERAS : videos[cam].paused)
    /\ [][(IsTick /\ videos["front"].paused)
            => /\ stallCounts' = ZeroCounts
               /\ \A cam \in CAMERAS : videos[cam].paused => videos'[cam].paused]_vars

\* The user paused while the second segment was loading: the source of the
\* back camera has finished loading since and stays paused, the front camera
\* has none yet, and the loop of the second segment is running.
C39_LoadedWhilePaused ==
    /\ ~playingRef
    /\ currentSegmentIndex = 1
    /\ ~videos["front"].src
    /\ videos["back"].src
    /\ videos["back"].paused
    /\ loopOn
    /\ phase = "env"

\* C40: no stall recovery action applied to the front camera moves its
\* position backward: after a tick that took a recovery tier for the front
\* camera, its position is not less than it was before the tick.
C40_FrontRecoveryNotBackward ==
    [][(IsTick /\ recovery'["front"] # "none")
          => videos'["front"].pos >= videos["front"].pos]_vars

====
